---------------------------- MODULE Spec2Model ----------------------------
(***************************************************************************)
(* A model of pyomron: the FINS-mini frame codec (device.py), the serial   *)
(* transport's terminator-seeking read loop (comm.py), the protocol client *)
(* operations built on them (device.py), the coalescing read of            *)
(* Omron.get (device.py) and the device registry fan-out (daq.py).         *)
(*                                                                         *)
(* Characters and bytes are modelled by their ordinal values, a str or a   *)
(* bytes object by a sequence of ordinals.  Every component has its own    *)
(* variables and its own specification; the variables of the other         *)
(* components stay parked at their idle values.                            *)
(***************************************************************************)
EXTENDS Integers, Sequences, FiniteSets, TLC

VARIABLES
    \* ---- frame codec (Omron._prepend/_append/_bcc_calc/_comm_frame)
    fpc,        \* position inside the running codec call
    fOp,        \* "bcc_calc" (direct call) or "comm_frame"
    unitNo,     \* self._unit_no
    body,       \* the argument: command body (comm_frame) or frame (bcc_calc)
    byteList,   \* local byte_list / frame
    bccRest,    \* what `for byte in frame[1:]` has still to visit
    bcc,        \* local bcc
    frameOut,   \* the bytes returned by _comm_frame
    \* ---- one request/response exchange and the client operation using it
    \*      (SerialDevice._write_readline, Omron.* in device.py)
    lpc,        \* "idle", "reading" (inside the read loop), "returned", "done"
    op,         \* the client operation that issued the exchange
    rdPrefix,   \* var_addr[0] of a variable area read
    numElem,    \* num_elem of a variable area read
    peer,       \* the bytes the peer sends in answer to the command
    sent,       \* how many of them have reached the port's input buffer
    inWaiting,  \* the port's input buffer (ser_devc.in_waiting() bytes)
    line,       \* local line of _write_readline, then resp of the operation
    timedOut,   \* a read attempt ran into move_on_after
    outcome,    \* "returned" or the error the operation raised
    result,     \* what the operation returned (raw values or text)
    deviceCreated,  \* new_device returned cls(device, unit_no)
    \* ---- the device registry and one get/set fan-out (DAQ in daq.py)
    devList,    \* the module's global dev_list: name -> Omron client
    gcall,      \* "idle", "running", "returned" or "raised"
    gKind,      \* "get" or "set"
    tasks,      \* the tasks the call started in its task group
    retDict,    \* the keys of the call's ret_dict
    gReturned,  \* the keys of the mapping the caller got back
    gIds,       \* the argument id of the call
    clock,      \* the last reading of datetime.now() in the running call
    stamps,     \* ret_dict: name -> the client asked and its two timestamps
    daqs,       \* the DAQ instances constructed
    caller,     \* the instance whose __init__, add_device or remove_device
                \* ran last; 0 once a get or set was called
    \* ---- one call of Omron.get (device.py)
    famOrder,   \* the order in which self.addresses.items() yields the families
    gpc,        \* "idle", "loop", "filter", "returned" or "raised"
    comm,       \* the requested names
    commSeq,    \* the list comm as the caller passed it
    ignoreError,
    commList,   \* comm_list: the resolved addresses
    gi,         \* the loop index i (0-based, as in the code)
    reads,      \* the _variable_area_read calls issued: (address, num_elem)
    retKeys,    \* the keys of ret_dict
    gError,     \* the error get raised
    \* ---- one call of Omron.status (device.py)
    spc,        \* "idle", "called", "filled", "returned" or "raised"
    sBits,      \* the bit positions at which value has a 1
    sValue,     \* value, as its two 16-bit halves
    sStatus,    \* the list status
    sResult,    \* the mapping returned
    \* ---- the decoding of a good response by Omron._variable_area_read
    dpc,        \* "idle", "called", "filled", "returned" or "raised"
    dVarType,   \* var_type
    dStart,     \* read_start
    dNum,       \* num_elem
    dRaws,      \* the integers the peer encoded, one per element
    dNotes,     \* C383_notation, as (key, raw value, notation) triples
    dResp,      \* resp[15:-2], the payload
    dRet,       \* ret_dict after the fill loop, in insertion order
    dResult,    \* the mapping returned
    dError,     \* the error raised
    \* ---- the encoding of the values by Omron._variable_area_write
    wpc,        \* "idle", "called", "encoded", "read" or "raised"
    wVarType,   \* var_addr[0:2]
    wStart,     \* the offset var_addr[2:6] denotes
    wValues,    \* set_values: each value in tenths, and whether it is an int
    wDigits,    \* the hex digits appended to the command, per element
    wBack,      \* the values a read of the same elements decodes from them
    wError,     \* the error raised
    \* ---- one call of Omron.set (device.py)
    tpc,        \* "idle", "loop", "returned" or "raised"
    tComm,      \* comm, as the list of its (key, value) items
    tIndex,     \* the keys handled so far
    tAddr,      \* comm_add: <<>> while unbound, else <<address>>
    tWrites,    \* the _variable_area_write calls made: (address, value)
    tError,     \* the error raised
    tNotes,     \* C383_notation in the order its items() are visited
    \* ---- one run of DAQLogging.logging and its two queues (daq.py)
    kpc,        \* "off", then the loop's position, "ended" or "raised"
    writeAsync, \* write_async
    duration,   \* duration, in time units
    timeNs,     \* time.time_ns() - start, in time units
    reps,       \* reps
    qin,        \* self.qin
    qout,       \* self.qout
    rows,       \* the snapshot whose rows the list rows holds, 0 for []
    snaps,      \* the snapshots taken in the loop, each with the time it
                \* was due and taken, its tick's work and its insert_data calls
    warnings,   \* the drift warnings emitted
    sinceStop,  \* the snapshots begun while "Stop" was the head of qin
    waiting,    \* the callers of DAQLogging.get / set that wait for a result
    got,        \* per caller, whose command the result it got answers (0: none)
    \* ---- the threads start_logging started on one DAQLogging (daq.py)
    selfQin,    \* the Queue self.qin refers to (0: None)
    loops,      \* per start_logging call: the queue it made, whether its
                \* loop runs, and the queues the loop has read
    queues      \* per Queue made, the number of "Stop" on it

frameVars == <<fpc, fOp, unitNo, body, byteList, bccRest, bcc, frameOut>>

linkVars == <<lpc, op, rdPrefix, numElem, peer, sent, inWaiting, line,
              timedOut, outcome, result, deviceCreated>>

regVars == <<devList, gcall, gKind, tasks, retDict, gReturned, gIds, clock, stamps,
            daqs, caller>>

getVars == <<famOrder, gpc, comm, commSeq, ignoreError, commList, gi, reads, retKeys, gError>>

statusVars == <<spc, sBits, sValue, sStatus, sResult>>

decodeVars == <<dpc, dVarType, dStart, dNum, dRaws, dNotes, dResp, dRet, dResult, dError>>

writeVars == <<wpc, wVarType, wStart, wValues, wDigits, wBack, wError>>

setVars == <<tpc, tComm, tIndex, tAddr, tWrites, tError, tNotes>>

logVars == <<kpc, writeAsync, duration, timeNs, reps, qin, qout, rows, snaps,
             warnings, sinceStop, waiting, got>>

startVars == <<selfQin, loops, queues>>

vars == <<frameVars, linkVars, regVars, getVars, statusVars, decodeVars, writeVars,
          setVars, logVars, startVars>>

(***************************************************************************)
(* Bounds of the model.                                                    *)
(***************************************************************************)
MaxBodyLen == 2
MaxElems == 2
MaxClients == 2
MaxIds == 2
MaxExchanges == 2
MaxOffset == 8
MaxBitsSet == 2
MaxDecoded == 2
MaxWritten == 2
MaxKeys == 2
Period == 2
MaxTicks == 2
MaxQueue == 2
MaxStarts == 2

(***************************************************************************)
(* Characters.                                                             *)
(***************************************************************************)
STX == 2
ETX == 3
Ch0 == 48

\* The characters frames are drawn from (STX, ETX, "0", "A", "B", "C") and
\* the characters command bodies are drawn from ("0", "1", "F").
Alphabet == {2, 3, 48, 65, 66, 67}
BodyAlphabet == {48, 49, 70}

RECURSIVE SeqsUpTo(_, _)
SeqsUpTo(S, n) ==
    IF n = 0 THEN {<<>>}
    ELSE LET shorter == SeqsUpTo(S, n - 1)
         IN  shorter \cup {Append(s, c) : s \in {t \in shorter : Len(t) = n - 1}, c \in S}

\* "0503" (controller attribute read) and "0601" (controller status read)
AttrReadBody == <<48, 53, 48, 51>>
StatusReadBody == <<48, 54, 48, 49>>

Bodies == SeqsUpTo(BodyAlphabet, MaxBodyLen) \cup {AttrReadBody, StatusReadBody}
Frames == (SeqsUpTo(Alphabet, MaxBodyLen + 1) \ {<<>>}) \cup {<<65, 66, 67>>}
UnitNos == 0..255

(***************************************************************************)
(* Python's ^ on non-negative integers.                                    *)
(***************************************************************************)
RECURSIVE Xor(_, _)
Xor(a, b) ==
    IF a = 0 /\ b = 0 THEN 0
    ELSE (((a % 2) + (b % 2)) % 2) + 2 * Xor(a \div 2, b \div 2)

(***************************************************************************)
(* hex(n)[2:] for n >= 0: the lowercase digits of n, most significant      *)
(* first, no padding; and str.upper() on one character.                    *)
(***************************************************************************)
HexDigitLower(d) == IF d < 10 THEN 48 + d ELSE 87 + d

RECURSIVE HexLower(_)
HexLower(n) ==
    IF n < 16 THEN <<HexDigitLower(n)>>
    ELSE Append(HexLower(n \div 16), HexDigitLower(n % 16))

UpperChar(c) == IF c >= 97 /\ c <= 122 THEN c - 32 ELSE c

Upper(s) == [i \in 1..Len(s) |-> UpperChar(s[i])]

(***************************************************************************)
(* Omron._prepend, for an int unit_no (the int(unit_no, 16) branch is for  *)
(* unit numbers given as strings).                                         *)
(***************************************************************************)
PrependNoPad(frame, unit_no) ==
    <<STX>> \o Upper(HexLower(unit_no)) \o <<Ch0, Ch0, Ch0>> \o frame

Prepend(frame, unit_no) ==
    LET digs == Upper(HexLower(unit_no))
        padded == IF Len(digs) < 2 THEN <<Ch0>> \o digs ELSE digs
    IN  <<STX>> \o padded \o <<Ch0, Ch0, Ch0>> \o frame

\* Omron._append
AppendEtx(frame) == frame \o <<ETX>>

\* What `for byte in frame[1:]` visits.
BccVisitedWhole(frame) == frame

BccVisited(frame) == SubSeq(frame, 2, Len(frame))

(***************************************************************************)
(* The codec as a state machine.                                           *)
(***************************************************************************)
\* The codec's actions leave the other components alone.
FrameOnly ==
    UNCHANGED <<linkVars, regVars, getVars, statusVars, decodeVars, writeVars, setVars, logVars, startVars>>

FrameInit ==
    /\ fpc = "idle"
    /\ fOp = "none"
    /\ unitNo = 0
    /\ body = <<>>
    /\ byteList = <<>>
    /\ bccRest = <<>>
    /\ bcc = 0
    /\ frameOut = <<>>

\* A direct call of _bcc_calc(frame).
CallBccCalc ==
    /\ FrameOnly
    /\ fpc = "idle"
    /\ \E f \in Frames :
        /\ body' = f
        /\ byteList' = f
    /\ fOp' = "bcc_calc"
    /\ fpc' = "bcc_start"
    /\ UNCHANGED <<unitNo, bccRest, bcc, frameOut>>

\* A call of _comm_frame(frame) on a client with unit number u.
CallCommFrame ==
    /\ FrameOnly
    /\ fpc = "idle"
    /\ \E u \in UnitNos, b \in Bodies :
        /\ unitNo' = u
        /\ body' = b
    /\ fOp' = "comm_frame"
    /\ fpc' = "prepend"
    /\ UNCHANGED <<byteList, bccRest, bcc, frameOut>>

\* byte_list = await self._prepend(frame, self._unit_no)
DoPrepend ==
    /\ FrameOnly
    /\ fpc = "prepend"
    /\ byteList' = Prepend(body, unitNo)
    /\ fpc' = "append"
    /\ UNCHANGED <<fOp, unitNo, body, bccRest, bcc, frameOut>>

\* byte_list = await self._append(byte_list)
DoAppend ==
    /\ FrameOnly
    /\ fpc = "append"
    /\ byteList' = AppendEtx(byteList)
    /\ fpc' = "bcc_start"
    /\ UNCHANGED <<fOp, unitNo, body, bccRest, bcc, frameOut>>

\* bcc = 0, and the loop over frame[1:] is entered
BccStart ==
    /\ FrameOnly
    /\ fpc = "bcc_start"
    /\ bcc' = 0
    /\ bccRest' = BccVisited(byteList)
    /\ fpc' = "bcc_loop"
    /\ UNCHANGED <<fOp, unitNo, body, byteList, frameOut>>

\* bcc ^= ord(byte)
BccStep ==
    /\ FrameOnly
    /\ fpc = "bcc_loop"
    /\ bccRest # <<>>
    /\ bcc' = Xor(bcc, Head(bccRest))
    /\ bccRest' = Tail(bccRest)
    /\ UNCHANGED <<fpc, fOp, unitNo, body, byteList, frameOut>>

\* return bcc; in _comm_frame: byte = bytes(...) + bytes([bcc]); return byte
BccReturn ==
    /\ FrameOnly
    /\ fpc = "bcc_loop"
    /\ bccRest = <<>>
    /\ frameOut' = IF fOp = "comm_frame" THEN byteList \o <<bcc>> ELSE <<>>
    /\ fpc' = "done"
    /\ UNCHANGED <<fOp, unitNo, body, byteList, bccRest, bcc>>

\* The caller takes the result; the codec is ready for the next call.
FrameReset ==
    /\ FrameOnly
    /\ fpc = "done"
    /\ fpc' = "idle"
    /\ fOp' = "none"
    /\ unitNo' = 0
    /\ body' = <<>>
    /\ byteList' = <<>>
    /\ bccRest' = <<>>
    /\ bcc' = 0
    /\ frameOut' = <<>>

FrameNext ==
    \/ CallBccCalc
    \/ CallCommFrame
    \/ DoPrepend
    \/ DoAppend
    \/ BccStart
    \/ BccStep
    \/ BccReturn
    \/ FrameReset

(***************************************************************************)
(* Python slices of a str/bytes: s[a:b] and s[a:-k], 0-based, clipped.     *)
(***************************************************************************)
Min(a, b) == IF a < b THEN a ELSE b
Max(a, b) == IF a > b THEN a ELSE b

Slice(s, a, b) ==
    LET lo == Min(a, Len(s))
        hi == Min(b, Len(s))
    IN  IF hi <= lo THEN <<>> ELSE SubSeq(s, lo + 1, hi)

SliceTo(s, a, k) == Slice(s, a, Max(Len(s) - k, 0))

(***************************************************************************)
(* The responses a peer may send.  A response is STX, unit number (2),     *)
(* sub-address (2), end code (2), command echo (4), response code (4),     *)
(* payload, ETX, BCC.  An end-code fault may also come without any         *)
(* command text (ShortFault).                                              *)
(***************************************************************************)
RECURSIVE XorAll(_)
XorAll(s) == IF s = <<>> THEN 0 ELSE Xor(Head(s), XorAll(Tail(s)))

WithBcc(f) == f \o <<XorAll(Tail(f))>>

End00 == <<48, 48>>
End0F == <<48, 70>>
End13 == <<49, 51>>
Rc0000 == <<48, 48, 48, 48>>
Rc1101 == <<49, 49, 48, 49>>
G3PW == <<71, 51, 80, 87>>

\* payloads: "007D", "0000007D", "G3PWA220EC0040", "G3PXA220EC0040"
Pay4 == <<48, 48, 55, 68>>
Pay8 == <<48, 48, 48, 48, 48, 48, 55, 68>>
PayG3PW == G3PW \o <<65, 50, 50, 48, 69, 67, 48, 48, 52, 48>>
PayG3PX == <<71, 51, 80, 88, 65, 50, 50, 48, 69, 67, 48, 48, 52, 48>>

Response(end, rc, payload) ==
    WithBcc(<<STX, Ch0, 49, Ch0, Ch0>> \o end \o <<48, 49, 48, 49>> \o rc
            \o payload \o <<ETX>>)

ShortFault == WithBcc(<<STX, Ch0, 49, Ch0, Ch0>> \o End13 \o <<ETX>>)

\* the frame f with another byte in the place of its checksum
WithWrongBcc(f) ==
    SubSeq(f, 1, Len(f) - 1) \o <<IF f[Len(f)] = Ch0 THEN 49 ELSE Ch0>>

PeerFrames ==
    {Response(e, r, p) : e \in {End00, End0F}, r \in {Rc0000, Rc1101},
                         p \in {Pay4, Pay8, PayG3PW, PayG3PX}}
    \cup {ShortFault}
    \cup {WithWrongBcc(Response(End00, r, p)) : r \in {Rc0000, Rc1101},
                                                p \in {Pay4, Pay8}}

Ops == {"new_device", "read", "write", "attr", "status", "echo"}

(***************************************************************************)
(* int(chunk, 16) on a chunk of hex digits; ValueError (-1 here) on an     *)
(* empty chunk or on any other character.  The peer's bytes of the model   *)
(* hold no sign, underscore or blank, which int() would also accept.       *)
(***************************************************************************)
IsHexChar(c) == (c >= 48 /\ c <= 57) \/ (c >= 65 /\ c <= 70) \/ (c >= 97 /\ c <= 102)

HexVal(c) == IF c <= 57 THEN c - 48 ELSE IF c <= 70 THEN c - 55 ELSE c - 87

RECURSIVE HexNum(_)
HexNum(s) == IF s = <<>> THEN 0 ELSE 16 * HexNum(SubSeq(s, 1, Len(s) - 1)) + HexVal(s[Len(s)])

ParseHex(s) ==
    IF s # <<>> /\ \A i \in 1..Len(s) : IsHexChar(s[i]) THEN HexNum(s) ELSE -1

(***************************************************************************)
(* Omron._check_end_code, Omron._check_response_code, Omron._is_model.     *)
(***************************************************************************)
\* the end code test joined with a test of the checksum byte
EndCodeAndBccOk(ret) ==
    /\ Slice(ret, 5, 7) = End00
    /\ ret[Len(ret)] = XorAll(SubSeq(ret, 2, Len(ret) - 1))

EndCodeOk(ret) == Slice(ret, 5, 7) = End00

ResponseCodeOk(ret) == Slice(ret, 11, 15) = Rc0000

\* a comparison of the first three characters only
IsModelLoose(model) == Slice(model, 0, 3) = Slice(G3PW, 0, 3)

IsModel(model) == Slice(model, 0, 4) = G3PW

(***************************************************************************)
(* SerialDevice._write_readline.                                           *)
(***************************************************************************)
LinkOnly ==
    UNCHANGED <<frameVars, regVars, getVars, statusVars, decodeVars, writeVars, setVars, logVars, startVars>>

LinkInit ==
    /\ lpc = "idle"
    /\ op = "none"
    /\ rdPrefix = "-"
    /\ numElem = 0
    /\ peer = <<>>
    /\ sent = 0
    /\ inWaiting = <<>>
    /\ line = <<>>
    /\ timedOut = FALSE
    /\ outcome = "none"
    /\ result = <<>>
    /\ deviceCreated = FALSE

\* An operation builds its command and enters _write_readline: the port is
\* opened, the command written, line = bytearray().  The peer will answer
\* with the bytes of p (or with a part of them).
Exchange(o, pre, n) ==
    /\ LinkOnly
    /\ lpc = "idle"
    /\ \E p \in PeerFrames : peer' = p
    /\ op' = o
    /\ rdPrefix' = pre
    /\ numElem' = n
    /\ lpc' = "reading"
    /\ UNCHANGED <<sent, inWaiting, line, timedOut, outcome, result, deviceCreated>>

CallNewDevice == Exchange("new_device", "-", 0)

CallVariableAreaRead ==
    \E pre \in {"8", "C", "X"}, n \in 1..MaxElems : Exchange("read", pre, n)

CallVariableAreaWrite == Exchange("write", "-", 0)

CallControllerAttributeRead == Exchange("attr", "-", 0)

CallControllerStatusRead == Exchange("status", "-", 0)

CallEchoBackTest == Exchange("echo", "-", 0)

\* new_device on a port that does not start with "/dev/": `device` is never
\* bound, so device._write_readline raises before anything is written.
NewDeviceBadPort ==
    /\ LinkOnly
    /\ lpc = "idle"
    /\ op' = "new_device"
    /\ outcome' = "UnboundLocalError"
    /\ lpc' = "done"
    /\ UNCHANGED <<rdPrefix, numElem, peer, sent, inWaiting, line, timedOut,
                   result, deviceCreated>>

\* The peer's next bytes reach the port's input buffer, in any split.
PeerDeliver ==
    /\ LinkOnly
    /\ lpc = "reading"
    /\ sent < Len(peer)
    /\ \E n \in 1..(Len(peer) - sent) :
        /\ inWaiting' = inWaiting \o SubSeq(peer, sent + 1, sent + n)
        /\ sent' = sent + n
    /\ UNCHANGED <<lpc, op, rdPrefix, numElem, peer, line, timedOut, outcome,
                   result, deviceCreated>>

\* Does the read loop stop after line has grown to l?
SeenTerminator(l) == \E i \in 1..Len(l) : l[i] = ETX

\* c = await self._read(): every byte waiting; line += c; break on ETX in line
ReadSome ==
    /\ LinkOnly
    /\ lpc = "reading"
    /\ inWaiting # <<>>
    /\ line' = line \o inWaiting
    /\ inWaiting' = <<>>
    /\ lpc' = IF SeenTerminator(line \o inWaiting) THEN "returned" ELSE "reading"
    /\ UNCHANGED <<op, rdPrefix, numElem, peer, sent, timedOut, outcome,
                   result, deviceCreated>>

\* nothing is waiting until move_on_after expires: c is None, break
ReadTimeout ==
    /\ LinkOnly
    /\ lpc = "reading"
    /\ inWaiting = <<>>
    /\ timedOut' = TRUE
    /\ lpc' = "returned"
    /\ UNCHANGED <<op, rdPrefix, numElem, peer, sent, inWaiting, line, outcome,
                   result, deviceCreated>>

(***************************************************************************)
(* What each operation does with resp = the returned line.                 *)
(***************************************************************************)
Finish(o, out, res, dev) ==
    /\ LinkOnly
    /\ lpc = "returned"
    /\ op = o
    /\ outcome' = out
    /\ result' = res
    /\ deviceCreated' = dev
    /\ lpc' = "done"
    /\ UNCHANGED <<op, rdPrefix, numElem, peer, sent, inWaiting, line, timedOut>>

\* Omron.new_device
NewDeviceOutcome(resp) ==
    IF ~EndCodeOk(resp) THEN "EndCodeError"
    ELSE IF ~ResponseCodeOk(resp) THEN "ResponseCodeError"
    ELSE IF IsModel(SliceTo(resp, 15, 6)) THEN "returned"
    ELSE "NotG3PW"

NewDeviceFinish ==
    Finish("new_device", NewDeviceOutcome(line), <<>>,
           NewDeviceOutcome(line) = "returned")

\* Omron._variable_area_read: the raw values of the elements, in order
ReadWidth(pre) == IF pre = "C" THEN 8 ELSE 4

ReadChunks(resp, pre, n) ==
    LET data == SliceTo(resp, 15, 2)
        w == ReadWidth(pre)
    IN  [i \in 1..n |-> ParseHex(Slice(data, w * (i - 1), w * i))]

VariableAreaReadOutcome(resp, pre, n) ==
    IF ~EndCodeOk(resp) THEN "EndCodeError"
    ELSE IF ~ResponseCodeOk(resp) THEN "ResponseCodeError"
    ELSE IF pre \notin {"C", "8"} THEN "VariableTypeError"
    ELSE IF \E i \in 1..n : ReadChunks(resp, pre, n)[i] = -1 THEN "ValueError"
    ELSE "returned"

VariableAreaReadFinish ==
    LET out == VariableAreaReadOutcome(line, rdPrefix, numElem)
    IN  Finish("read", out,
               IF out = "returned" THEN ReadChunks(line, rdPrefix, numElem) ELSE <<>>,
               FALSE)

\* Omron._variable_area_write
VariableAreaWriteOutcome(resp) ==
    IF ~EndCodeOk(resp) THEN "EndCodeError"
    ELSE IF ~ResponseCodeOk(resp) THEN "ResponseCodeError"
    ELSE "returned"

VariableAreaWriteFinish ==
    Finish("write", VariableAreaWriteOutcome(line), <<>>, FALSE)

\* Omron.controller_attribute_read: the response code is checked, the end
\* code is not
ControllerAttributeReadFinish ==
    LET ok == ResponseCodeOk(line)
    IN  Finish("attr", IF ok THEN "returned" ELSE "ResponseCodeError",
               IF ok THEN SliceTo(line, 15, 6) ELSE <<>>, FALSE)

\* Omron.controller_status_read: the same, with resp[15:-4]
ControllerStatusReadFinish ==
    LET ok == ResponseCodeOk(line)
    IN  Finish("status", IF ok THEN "returned" ELSE "ResponseCodeError",
               IF ok THEN SliceTo(line, 15, 4) ELSE <<>>, FALSE)

\* Omron.echo_back_test: the end code, then resp.hex()[23], [25], [27], [29],
\* the low nibbles of resp[11..14]; resp.hex()[i] raises IndexError on a
\* short response
EchoNibbleBad(resp) ==
    {i \in 11..14 : i >= Len(resp) \/ resp[i + 1] % 16 # 0}

EchoBackTestOutcome(resp) ==
    IF ~EndCodeOk(resp) THEN "EndCodeError"
    ELSE IF EchoNibbleBad(resp) = {} THEN "returned"
    ELSE LET first == CHOOSE i \in EchoNibbleBad(resp) :
                         \A j \in EchoNibbleBad(resp) : i <= j
         IN  IF first >= Len(resp) THEN "IndexError" ELSE "RuntimeError"

EchoBackTestFinish ==
    Finish("echo", EchoBackTestOutcome(line), <<>>, FALSE)

\* The caller has the outcome; the link is free for the next exchange.
LinkReset ==
    /\ LinkOnly
    /\ lpc = "done"
    /\ lpc' = "idle"
    /\ op' = "none"
    /\ rdPrefix' = "-"
    /\ numElem' = 0
    /\ peer' = <<>>
    /\ sent' = 0
    /\ inWaiting' = <<>>
    /\ line' = <<>>
    /\ timedOut' = FALSE
    /\ outcome' = "none"
    /\ result' = <<>>
    /\ deviceCreated' = FALSE

LinkNext ==
    \/ CallNewDevice
    \/ NewDeviceBadPort
    \/ CallVariableAreaRead
    \/ CallVariableAreaWrite
    \/ CallControllerAttributeRead
    \/ CallControllerStatusRead
    \/ CallEchoBackTest
    \/ PeerDeliver
    \/ ReadSome
    \/ ReadTimeout
    \/ NewDeviceFinish
    \/ VariableAreaReadFinish
    \/ VariableAreaWriteFinish
    \/ ControllerAttributeReadFinish
    \/ ControllerStatusReadFinish
    \/ EchoBackTestFinish
    \/ LinkReset

(***************************************************************************)
(* DAQ: the registry and the fan-out of get and set.  A task is one        *)
(* update_dict_get / update_dict_set started with g.start_soon; the        *)
(* exchanges of its Omron.get / Omron.set are the calls of                 *)
(* _write_readline, none of which takes a lock.                            *)
(***************************************************************************)
DevNames == {"A", "B"}
Clients == 1..MaxClients

RegOnly ==
    UNCHANGED <<frameVars, linkVars, getVars, statusVars, decodeVars, writeVars, setVars, logVars, startVars>>

RegInit ==
    /\ devList = <<>>
    /\ gcall = "idle"
    /\ gKind = "none"
    /\ tasks = <<>>
    /\ retDict = {}
    /\ gReturned = {}
    /\ gIds = <<>>
    /\ clock = 0
    /\ stamps = <<>>
    /\ daqs = {1}
    /\ caller = 1

Registered == DOMAIN devList

\* the instances of the model: a first DAQ and a second
DaqIds == {1, 2}

\* DAQ.__init__: global dev_list; dev_list = {}
NewDaq ==
    /\ RegOnly
    /\ gcall = "idle"
    /\ \E i \in DaqIds \ daqs :
        /\ daqs' = daqs \cup {i}
        /\ caller' = i
    /\ devList' = <<>>
    /\ UNCHANGED <<gcall, gKind, tasks, retDict, gReturned, gIds, clock, stamps>>

\* DAQ.dev_list(self): return dev_list, whatever self is
DevListOf(i) == devList

\* add_device: dev_list.update({name: dev}), dev an Omron given by the
\* caller or the one new_device returned
AddDevice ==
    /\ RegOnly
    /\ gcall = "idle"
    /\ \E n \in DevNames, c \in Clients :
        devList' = [m \in Registered \cup {n} |-> IF m = n THEN c ELSE devList[m]]
    /\ caller' \in daqs
    /\ UNCHANGED <<gcall, gKind, tasks, retDict, gReturned, gIds, clock, stamps, daqs>>

\* remove_device([n]): the transport is closed, del dev_list[n]
RemoveDevice ==
    /\ RegOnly
    /\ gcall = "idle"
    /\ \E n \in Registered :
        devList' = [m \in Registered \ {n} |-> devList[m]]
    /\ caller' \in daqs
    /\ UNCHANGED <<gcall, gKind, tasks, retDict, gReturned, gIds, clock, stamps, daqs>>

\* The names a call targets: every registered name when id is empty (in
\* some order), the listed ids otherwise (repeats and unknown names
\* included).
RECURSIVE SeqOfSet(_)
SeqOfSet(S) ==
    IF S = {} THEN <<>>
    ELSE LET x == CHOOSE y \in S : TRUE IN <<x>> \o SeqOfSet(S \ {x})

IdLists == SeqsUpTo(DevNames, MaxIds)

Targets(id) == IF id = <<>> THEN SeqOfSet(Registered) ELSE id

\* start is the task's local of that name, 0 before it is set and once the
\* task has ended
NewTask(d) ==
    [dev |-> d, st |-> "spawned", client |-> 0, n |-> 0, why |-> "-", start |-> 0]

\* datetime.now(): a reading not before the last one
Ticks == {0, 1}

Readings == {t \in Ticks : t >= clock}

\* the two timestamps exchanged
StampSwapped(c, start, now) == [client |-> c, sent |-> now, recv |-> start]

\* the timestamps update_dict_get adds to vals for a get that began at
\* start and returned at now
Stamp(c, start, now) == [client |-> c, sent |-> start, recv |-> now]

\* ret_dict.update({dev: vals})
Update(d, k, v) == [m \in DOMAIN d \cup {k} |-> IF m = k THEN v ELSE d[m]]

\* ret_dict = {}; async with create_task_group() as g: g.start_soon(...)
StartFanOut(kind) ==
    /\ RegOnly
    /\ gcall = "idle"
    /\ \E id \in IdLists :
        /\ tasks' = [i \in 1..Len(Targets(id)) |-> NewTask(Targets(id)[i])]
        /\ gIds' = id
    /\ stamps' = <<>>
    /\ gcall' = "running"
    /\ gKind' = kind
    /\ retDict' = {}
    /\ gReturned' = {}
    /\ caller' = 0
    /\ UNCHANGED <<devList, clock, daqs>>

CallGet == StartFanOut("get")

CallSet == StartFanOut("set")

\* An exception in one task cancels the task group's scope: every task
\* that has not finished is cancelled at its next checkpoint.
CancelOthers(ts, i, reason) ==
    [j \in 1..Len(ts) |->
        IF j = i THEN [ts[j] EXCEPT !.st = "failed", !.why = reason, !.start = 0]
        ELSE IF ts[j].st \in {"spawned", "exchanging"}
             THEN [ts[j] EXCEPT !.st = "cancelled", !.start = 0]
             ELSE ts[j]]

\* May a task write its command on client c now?  Nothing in
\* _write_readline or its callers waits for a running exchange.
MayWrite(ts, c) == TRUE

\* The task runs: dev_list[dev] is looked up and its get/set writes the
\* first command.
TaskBegin ==
    /\ RegOnly
    /\ gcall = "running"
    /\ \E i \in 1..Len(tasks) :
        /\ tasks[i].st = "spawned"
        /\ tasks[i].dev \in Registered
        /\ MayWrite(tasks, devList[tasks[i].dev])
        /\ \E t \in Readings :
            /\ clock' = IF gKind = "get" THEN t ELSE clock
            /\ tasks' = [tasks EXCEPT ![i] =
                            [@ EXCEPT !.st = "exchanging",
                                      !.client = devList[tasks[i].dev],
                                      !.n = 1,
                                      !.start = IF gKind = "get" THEN t ELSE 0]]
    /\ UNCHANGED <<devList, gcall, gKind, retDict, gReturned, gIds, stamps, daqs, caller>>

\* dev_list[dev] raises KeyError for a name that is not registered.
TaskUnknownDevice ==
    /\ RegOnly
    /\ gcall = "running"
    /\ \E i \in 1..Len(tasks) :
        /\ tasks[i].st = "spawned"
        /\ tasks[i].dev \notin Registered
        /\ tasks' = CancelOthers(tasks, i, "KeyError")
    /\ UNCHANGED <<devList, gcall, gKind, retDict, gReturned, gIds, clock, stamps, daqs, caller>>

\* An exchange returned a good response and the client's get/set goes on
\* to its next read or write.
TaskNextExchange ==
    /\ RegOnly
    /\ gcall = "running"
    /\ \E i \in 1..Len(tasks) :
        /\ tasks[i].st = "exchanging"
        /\ tasks[i].n < MaxExchanges
        /\ tasks' = [tasks EXCEPT ![i] = [@ EXCEPT !.n = @ + 1]]
    /\ UNCHANGED <<devList, gcall, gKind, retDict, gReturned, gIds, clock, stamps, daqs, caller>>

\* The client's get/set returned: ret_dict.update({dev: vals})
TaskDone ==
    /\ RegOnly
    /\ gcall = "running"
    /\ \E i \in 1..Len(tasks) :
        /\ tasks[i].st = "exchanging"
        /\ tasks' = [tasks EXCEPT ![i] = [@ EXCEPT !.st = "done", !.start = 0]]
        /\ retDict' = retDict \cup {tasks[i].dev}
        /\ \E t \in Readings :
            /\ clock' = IF gKind = "get" THEN t ELSE clock
            /\ stamps' = IF gKind = "get"
                         THEN Update(stamps, tasks[i].dev,
                                     Stamp(tasks[i].client, tasks[i].start, t))
                         ELSE stamps
    /\ UNCHANGED <<devList, gcall, gKind, gReturned, gIds, daqs, caller>>

\* The client's get/set raised: a timed-out or faulted response (ValueError)
\* or a count mismatch (KeyError).  The exception leaves the task.
TaskFault ==
    /\ RegOnly
    /\ gcall = "running"
    /\ \E i \in 1..Len(tasks) :
        /\ tasks[i].st = "exchanging"
        /\ tasks' = CancelOthers(tasks, i, "fault")
    /\ UNCHANGED <<devList, gcall, gKind, retDict, gReturned, gIds, clock, stamps, daqs, caller>>

Settled(ts) == \A i \in 1..Len(ts) : ts[i].st \in {"done", "failed", "cancelled"}

AnyFailed(ts) == \E i \in 1..Len(ts) : ts[i].st = "failed"

\* every task finished: return ret_dict
FanOutReturn ==
    /\ RegOnly
    /\ gcall = "running"
    /\ Settled(tasks)
    /\ ~AnyFailed(tasks)
    /\ gReturned' = retDict
    /\ gcall' = "returned"
    /\ UNCHANGED <<devList, gKind, tasks, retDict, gIds, clock, stamps, daqs, caller>>

\* a task raised: the task group re-raises on exit, return is not reached
FanOutRaise ==
    /\ RegOnly
    /\ gcall = "running"
    /\ Settled(tasks)
    /\ AnyFailed(tasks)
    /\ gcall' = "raised"
    /\ UNCHANGED <<devList, gKind, tasks, retDict, gReturned, gIds, clock, stamps, daqs, caller>>

FanOutReset ==
    /\ RegOnly
    /\ gcall \in {"returned", "raised"}
    /\ gcall' = "idle"
    /\ gKind' = "none"
    /\ tasks' = <<>>
    /\ retDict' = {}
    /\ gReturned' = {}
    /\ gIds' = <<>>
    /\ stamps' = <<>>
    /\ clock' = 0
    /\ UNCHANGED <<devList, daqs, caller>>

RegNext ==
    \/ NewDaq
    \/ AddDevice
    \/ RemoveDevice
    \/ CallGet
    \/ CallSet
    \/ TaskBegin
    \/ TaskUnknownDevice
    \/ TaskNextExchange
    \/ TaskDone
    \/ TaskFault
    \/ FanOutReturn
    \/ FanOutRaise
    \/ FanOutReset

(***************************************************************************)
(* The address table (Omron.addresses).  A variable type is two            *)
(* characters: "C" (8 hex digits per value) or "8" (4 hex digits), then    *)
(* the area "E", "1" or "3".  An address "CE0006" is modelled by the       *)
(* number its six hex digits denote, int(address, 16): the table's keys    *)
(* are four uppercase hex digits, so the strings the code compares and     *)
(* sorts are in one-to-one, order-preserving correspondence with these     *)
(* numbers.                                                                *)
(***************************************************************************)
NamesE == <<"Input Monitor", "Internal Duty Monitor", "Output Monitor",
            "Phase Angle Monitor", "Current Monitor", "Total Run Time Monitor",
            "Status", "Heater characteristic of resistance">>

Names1 == <<"Communications Main Setting 1", "Communications Main Setting 2",
            "Communications Main Setting 3", "Communications Main Setting 4",
            "Communications Main Setting 5", "Communications Main Setting 6",
            "Communications Main Setting 7", "Communications Main Setting 8",
            "Internal Duty Setting", "Base-Up Value", "Soft-start Up Time",
            "Soft-start Down Time", "Output Upper Limit", "Output Lower Limit",
            "Heater Burnout Threshold",
            "Heater Characteristic Resistance for Phase Control",
            "Heater Characteristic Resistance for Optimum Cycle Control",
            "Heater Burnout Detection Lower Limit">>

Names3 == <<"Communications Data Length", "Communications Stop Bits",
            "Communications Parity", "Send Wait Time",
            "Communications Timeout Time", "Communications Unit Number",
            "Communications Baud Rate", "Communications Main Setting Number",
            "External Duty Input Enable/Disable", "Output Mode Selection",
            "Input Digital Filter Time Constant", "Input Signal Type",
            "Main Setting Automatic Input Selection",
            "Main Setting Manual Input Selection", "Control Method Default",
            "Main Setting Automatic/Manual Default",
            "Number of Alarms for Heater Burnout Detection",
            "Load Current Upper Limit", "Event Input Assignment",
            "Alarm Output Open in Alarm", "Heater Burnout Alarm Operation",
            "Total Run Time Exceeded Alarm Operation",
            "Total Run Time Alarm Set Value",
            "External Input Range Alarm Operation",
            "External Duty Input Alarm Operation",
            "SSR short circuit detection enabled", "SSR open failure detection",
            "CT failure detection">>

\* "Version" is at offset 0x0014 of the E area
VersionOffset == 20

Areas == {"E", "1", "3"}

AreaOffsets(area) ==
    IF area = "E" THEN (0..(Len(NamesE) - 1)) \cup {VersionOffset}
    ELSE IF area = "1" THEN 0..(Len(Names1) - 1)
    ELSE 0..(Len(Names3) - 1)

NameAt(area, off) ==
    IF area = "E" THEN (IF off = VersionOffset THEN "Version" ELSE NamesE[off + 1])
    ELSE IF area = "1" THEN Names1[off + 1]
    ELSE Names3[off + 1]

VarTypes == {"CE", "8E", "C1", "81", "C3", "83"}

AreaOf(vt) == IF vt \in {"CE", "8E"} THEN "E"
              ELSE IF vt \in {"C1", "81"} THEN "1" ELSE "3"

\* int(var_type, 16)
VarTypeCode(vt) ==
    IF vt = "8E" THEN 142 ELSE IF vt = "CE" THEN 206
    ELSE IF vt = "81" THEN 129 ELSE IF vt = "C1" THEN 193
    ELSE IF vt = "83" THEN 131 ELSE 195

VarTypeOfCode(code) ==
    IF code = 142 THEN "8E" ELSE IF code = 206 THEN "CE"
    ELSE IF code = 129 THEN "81" ELSE IF code = 193 THEN "C1"
    ELSE IF code = 131 THEN "83" ELSE IF code = 195 THEN "C3" ELSE "??"

AddrSpan == 65536

Address(vt, off) == VarTypeCode(vt) * AddrSpan + off
CodeOf(addr) == addr \div AddrSpan
OffsetOf(addr) == addr % AddrSpan

\* is addr a key of the table, and the name it maps to
Mapped(addr) ==
    /\ VarTypeOfCode(CodeOf(addr)) \in VarTypes
    /\ OffsetOf(addr) \in AreaOffsets(AreaOf(VarTypeOfCode(CodeOf(addr))))

NameOf(addr) == NameAt(AreaOf(VarTypeOfCode(CodeOf(addr))), OffsetOf(addr))

\* "8" + comm_add[1:] and "C" + comm_add[1:]
As8(addr) == IF CodeOf(addr) >= 192 THEN addr - 64 * AddrSpan ELSE addr
AsC(addr) == IF CodeOf(addr) < 192 THEN addr + 64 * AddrSpan ELSE addr

\* The order of the families in the table: the historical table lists the
\* C type of an area before its 8 type; the order in codes.json is not in
\* the sources, so both orders are modelled.
OrderCFirst == <<"CE", "8E", "C1", "81", "C3", "83">>
Order8First == <<"8E", "CE", "81", "C1", "83", "C3">>
FamilyOrders == {OrderCFirst, Order8First}

\* The 32 status labels of codes.json: bits 7 and 12..15 carry "Not used.".
StatusBits == 0..31
ReservedBits == {7, 12, 13, 14, 15}
StatusLabelSeq ==
    <<"Status bit 0", "Status bit 1", "Status bit 2", "Status bit 3",
      "Status bit 4", "Status bit 5", "Status bit 6", "Not used.",
      "Status bit 8", "Status bit 9", "Status bit 10", "Status bit 11",
      "Not used.", "Not used.", "Not used.", "Not used.",
      "Status bit 16", "Status bit 17", "Status bit 18", "Status bit 19",
      "Status bit 20", "Status bit 21", "Status bit 22", "Status bit 23",
      "Status bit 24", "Status bit 25", "Status bit 26", "Status bit 27",
      "Status bit 28", "Status bit 29", "Status bit 30", "Status bit 31">>

StatusLabels == {StatusLabelSeq[b + 1] : b \in StatusBits}

\* the keys of the mapping status() returns
StatusKeys == StatusLabels \ {"Not used."}

(***************************************************************************)
(* Omron.get: the resolution of the names.                                 *)
(***************************************************************************)
SetOfSeq(q) == {q[i] : i \in 1..Len(q)}

\* the families whose dict has a value equal to c, in the order of the
\* table: the passes of the two inner loops in which `if c == command` holds
Holds(vt, c) == \E o \in AreaOffsets(AreaOf(vt)) : NameAt(AreaOf(vt), o) = c

HitsOf(c, order) == SelectSeq(order, LAMBDA vt : Holds(vt, c))

AddressIn(vt, c) ==
    Address(vt, CHOOSE o \in AreaOffsets(AreaOf(vt)) : NameAt(AreaOf(vt), o) = c)

\* the body of `if c == command` for the address found
AppendAddress(list, found) ==
    LET comm_add == IF found = Address("8E", 6) THEN Address("CE", 6) ELSE found
    IN  IF /\ As8(comm_add) \notin SetOfSeq(list)
           /\ AsC(comm_add) \notin SetOfSeq(list)
        THEN Append(list, comm_add) ELSE list

RECURSIVE ResolveHits(_, _, _)
ResolveHits(list, c, hits) ==
    IF hits = <<>> THEN list
    ELSE ResolveHits(AppendAddress(list, AddressIn(Head(hits), c)), c, Tail(hits))

ResolveName(list, c, order) == ResolveHits(list, c, HitsOf(c, order))

\* `for c in comm`: the list after the passes for the first name (never a
\* shorter one) goes on to the passes for the other names
RECURSIVE ResolveAll(_, _, _)
ResolveAll(list, names, order) ==
    IF names = <<>> THEN list
    ELSE LET next == ResolveName(list, Head(names), order)
         IN  IF Len(next) >= Len(list)
             THEN ResolveAll(next, Tail(names), order)
             ELSE next

\* comm_list.sort()
RECURSIVE SortedSeq(_)
SortedSeq(S) ==
    IF S = {} THEN <<>>
    ELSE LET m == CHOOSE x \in S : \A y \in S : x <= y
         IN  <<m>> \o SortedSeq(S \ {m})

Sort(q) == SortedSeq(SetOfSeq(q))

(***************************************************************************)
(* Omron.get: one pass of the while loop.  For j in range(8) the last j    *)
(* with comm_list[i] + j in comm_list sets k = j + 1 and idx.              *)
(***************************************************************************)
LookAhead == 8

Matches(list, i, width) ==
    {j \in 0..(width - 1) : list[i + 1] + j \in SetOfSeq(list)}

LastMatch(list, i, width) ==
    CHOOSE j \in Matches(list, i, width) : \A h \in Matches(list, i, width) : h <= j

\* k with a look-ahead of one less and of one more than the code's range(8)
RunLengthSeven(list, i) == LastMatch(list, i, LookAhead - 1) + 1

RunLengthNine(list, i) == LastMatch(list, i, LookAhead + 1) + 1

RunLength(list, i) == LastMatch(list, i, LookAhead) + 1

\* comm_list.index(...) of the last match, 0-based
IndexOfLast(list, i) ==
    (CHOOSE h \in 1..Len(list) : list[h] = list[i + 1] + RunLength(list, i) - 1) - 1

\* the next index when i is only incremented, without i = idx
NextIndexNoJump(list, i) == i + 1

NextIndex(list, i) ==
    (IF RunLength(list, i) > 1 THEN IndexOfLast(list, i) ELSE i) + 1

\* _variable_area_read(addr, k) on a good response: the keys of the
\* mapping it returns.  A "Status" element makes it return status(value)
\* alone.
ReadRange(addr, k) == addr..(addr + k - 1)

ReadKeys(addr, k) ==
    LET names == {NameOf(a) : a \in ReadRange(addr, k)}
    IN  IF "Status" \in names THEN StatusKeys ELSE names

(***************************************************************************)
(* The requested names of the model: any set of names of one area at       *)
(* offsets 0..MaxOffset, with at most one more name from anywhere.         *)
(***************************************************************************)
WindowNames(area) == {NameAt(area, o) : o \in AreaOffsets(area) \cap (0..MaxOffset)}

CrossNames == {"Version", "Output Upper Limit", "No Such Name"}

CommChoices ==
    {w \cup x : w \in UNION {SUBSET WindowNames(a) : a \in Areas},
                x \in {{}} \cup {{c} : c \in CrossNames}}

\* how many of the requested names are given twice
Repeats == {0, 1}

\* a list of names in which the first r names are given twice
WithRepeats(names, r) == names \o SubSeq(names, 1, r)

GetOnly ==
    UNCHANGED <<frameVars, linkVars, regVars, statusVars, decodeVars, writeVars, setVars, logVars, startVars>>

GetInit ==
    /\ gpc = "idle"
    /\ comm = {}
    /\ commSeq = <<>>
    /\ ignoreError = FALSE
    /\ commList = <<>>
    /\ gi = 0
    /\ reads = <<>>
    /\ retKeys = {}
    /\ gError = "none"

\* get(comm, ignoreError) with names: the addresses are resolved and sorted
CallGetNames ==
    /\ GetOnly
    /\ gpc = "idle"
    /\ \E c \in CommChoices \ {{}}, r \in Repeats :
        /\ r <= Cardinality(c)
        /\ comm' = c
        /\ commSeq' = WithRepeats(SeqOfSet(c), r)
        /\ commList' = Sort(ResolveAll(<<>>, WithRepeats(SeqOfSet(c), r), famOrder))
    /\ ignoreError' \in BOOLEAN
    /\ gi' = 0
    /\ reads' = <<>>
    /\ retKeys' = {}
    /\ gError' = "none"
    /\ gpc' = "loop"
    /\ UNCHANGED famOrder

\* get() without names: return await self.monitors(), one read of 8E0000
\* with 6 elements
CallGetMonitors ==
    /\ GetOnly
    /\ gpc = "idle"
    /\ reads' = <<[addr |-> Address("8E", 0), n |-> 6]>>
    /\ \/ /\ retKeys' = ReadKeys(Address("8E", 0), 6)
          /\ gpc' = "returned"
          /\ gError' = "none"
       \/ /\ retKeys' = {}
          /\ gpc' = "raised"
          /\ gError' = "ValueError"
    /\ UNCHANGED <<famOrder, comm, commSeq, ignoreError, commList, gi>>

\* one pass of `while i <= len(comm_list) - 1` whose read returns
GetRead ==
    /\ GetOnly
    /\ gpc = "loop"
    /\ gi <= Len(commList) - 1
    /\ LET k == RunLength(commList, gi)
           a == commList[gi + 1]
       IN  /\ reads' = Append(reads, [addr |-> a, n |-> k])
           /\ \A x \in ReadRange(a, k) : Mapped(x)
           /\ retKeys' = retKeys \cup ReadKeys(a, k)
           /\ gi' = NextIndex(commList, gi)
    /\ UNCHANGED <<famOrder, gpc, comm, commSeq, ignoreError, commList, gError>>

\* one pass whose read raises: a faulted or unusable response (ValueError),
\* or an element whose address is not in the table (KeyError)
GetReadRaises ==
    /\ GetOnly
    /\ gpc = "loop"
    /\ gi <= Len(commList) - 1
    /\ LET k == RunLength(commList, gi)
           a == commList[gi + 1]
       IN  /\ reads' = Append(reads, [addr |-> a, n |-> k])
           /\ gError' \in {"ValueError"} \cup
                          {"KeyError" : x \in {y \in ReadRange(a, k) : ~Mapped(y)}}
    /\ gpc' = "raised"
    /\ UNCHANGED <<famOrder, comm, commSeq, ignoreError, commList, gi, retKeys>>

\* the loop is over: the keys that were not asked for are deleted
GetFilter ==
    /\ GetOnly
    /\ gpc = "loop"
    /\ gi > Len(commList) - 1
    /\ retKeys' = {c \in retKeys : c \in comm \/ c \in StatusLabels}
    /\ gpc' = "filter"
    /\ UNCHANGED <<famOrder, comm, commSeq, ignoreError, commList, gi, reads, gError>>

\* the count check, KeyError("Not all values were read.") or return ret_dict
CountMismatch ==
    \/ ("Status" \notin comm /\ Len(commSeq) # Cardinality(retKeys))
    \/ ("Status" \in comm /\ Len(commSeq) # Cardinality(retKeys) - 16)

GetFinish ==
    /\ GetOnly
    /\ gpc = "filter"
    /\ IF CountMismatch /\ ~ignoreError
       THEN gpc' = "raised" /\ gError' = "NotAllValuesRead"
       ELSE gpc' = "returned" /\ gError' = "none"
    /\ UNCHANGED <<famOrder, comm, commSeq, ignoreError, commList, gi, reads, retKeys>>

GetReset ==
    /\ GetOnly
    /\ gpc \in {"returned", "raised"}
    /\ gpc' = "idle"
    /\ comm' = {}
    /\ commSeq' = <<>>
    /\ ignoreError' = FALSE
    /\ commList' = <<>>
    /\ gi' = 0
    /\ reads' = <<>>
    /\ retKeys' = {}
    /\ gError' = "none"
    /\ UNCHANGED famOrder

GetNext ==
    \/ CallGetNames
    \/ CallGetMonitors
    \/ GetRead
    \/ GetReadRaises
    \/ GetFilter
    \/ GetFinish
    \/ GetReset

(***************************************************************************)
(* Omron.status(value).  A 32-bit value is held as its two 16-bit halves,  *)
(* value = hi * 65536 + lo.                                                *)
(***************************************************************************)
RECURSIVE TwoTo(_)
TwoTo(k) == IF k = 0 THEN 1 ELSE 2 * TwoTo(k - 1)

HalfBits == 16

RECURSIVE SumTwoTo(_)
SumTwoTo(B) ==
    IF B = {} THEN 0
    ELSE LET b == CHOOSE x \in B : TRUE IN TwoTo(b) + SumTwoTo(B \ {b})

\* the value whose 1 bits are at the positions B
ValueOfBits(B) ==
    [lo |-> SumTwoTo({b \in B : b < HalfBits}),
     hi |-> SumTwoTo({b - HalfBits : b \in {x \in B : x >= HalfBits}})]

\* the values of the model: at most MaxBitsSet bits set, or all bits set
\* but at most MaxBitsSet
RECURSIVE BitSetsUpTo(_)
BitSetsUpTo(n) ==
    IF n = 0 THEN {{}}
    ELSE BitSetsUpTo(n - 1) \cup
         {B \cup {b} : B \in BitSetsUpTo(n - 1), b \in StatusBits}

FewBits == BitSetsUpTo(MaxBitsSet)

StatusInputs == FewBits \cup {StatusBits \ B : B \in FewBits}

\* (value >> i) & 1
ShiftAnd1(value, i) ==
    IF i < HalfBits THEN (value.lo \div TwoTo(i)) % 2
    ELSE (value.hi \div TwoTo(i - HalfBits)) % 2

\* e_m and p_m
ErrorName(b) == IF b = 0 THEN "No Error" ELSE "Error"
OnOff(b) == IF b = 0 THEN "OFF" ELSE "ON"

\* the same chain with the bounds of the Error branch and of bit 19 moved
StatusEntryShifted(value, i) ==
    IF i \in ReservedBits THEN "Q"
    ELSE IF i <= 16 THEN ErrorName(ShiftAnd1(value, i))
    ELSE IF i = 18 THEN (IF ShiftAnd1(value, i) = 1 THEN "Initial Setting Level"
                         ELSE "Operation Level")
    ELSE IF i = 20 THEN (IF ShiftAnd1(value, i) = 1 THEN "Manual" ELSE "Automatic")
    ELSE IF i = 21 THEN (IF ShiftAnd1(value, i) = 1 THEN "Optimum Cycle Control"
                         ELSE "Phase Control")
    ELSE OnOff(ShiftAnd1(value, i))

\* the body of `for i in range(32)`: what status[i] is after the loop
StatusEntry(value, i) ==
    IF i \in ReservedBits THEN "Q"
    ELSE IF i < 16 THEN ErrorName(ShiftAnd1(value, i))
    ELSE IF i = 19 THEN (IF ShiftAnd1(value, i) = 1 THEN "Initial Setting Level"
                         ELSE "Operation Level")
    ELSE IF i = 20 THEN (IF ShiftAnd1(value, i) = 1 THEN "Manual" ELSE "Automatic")
    ELSE IF i = 21 THEN (IF ShiftAnd1(value, i) = 1 THEN "Optimum Cycle Control"
                         ELSE "Phase Control")
    ELSE OnOff(ShiftAnd1(value, i))

\* dict(zip(labels, status)): a label given more than once keeps the entry
\* of its last position
ZipDict(labels, status) ==
    LET n == IF Len(labels) < Len(status) THEN Len(labels) ELSE Len(status)
        last(k) == CHOOSE h \in 1..n :
                      /\ labels[h] = k
                      /\ \A g \in 1..n : labels[g] = k => g <= h
    IN  [k \in {labels[h] : h \in 1..n} |-> status[last(k)]]

\* a mapping that keeps every key
DelNothing(d, key) == d

\* del d[key]
Del(d, key) == [k \in (DOMAIN d) \ {key} |-> d[k]]

StatusOnly ==
    UNCHANGED <<frameVars, linkVars, regVars, getVars, decodeVars, writeVars, setVars, logVars, startVars>>

StatusInit ==
    /\ spc = "idle"
    /\ sBits = {}
    /\ sValue = [lo |-> 0, hi |-> 0]
    /\ sStatus = <<>>
    /\ sResult = <<>>

\* status(value) is called
CallStatus ==
    /\ StatusOnly
    /\ spc = "idle"
    /\ \E B \in StatusInputs :
        /\ sBits' = B
        /\ sValue' = ValueOfBits(B)
    /\ spc' = "called"
    /\ UNCHANGED <<sStatus, sResult>>

\* status = ["Q"] * 32 and the loop over the 32 bits
StatusFill ==
    /\ StatusOnly
    /\ spc = "called"
    /\ sStatus' = [h \in 1..32 |-> StatusEntry(sValue, h - 1)]
    /\ spc' = "filled"
    /\ UNCHANGED <<sBits, sValue, sResult>>

\* ret_dict = dict(zip(self.status_labels, status)); del ret_dict["Not used."]
StatusReturn ==
    /\ StatusOnly
    /\ spc = "filled"
    /\ IF "Not used." \in DOMAIN ZipDict(StatusLabelSeq, sStatus)
       THEN /\ sResult' = Del(ZipDict(StatusLabelSeq, sStatus), "Not used.")
            /\ spc' = "returned"
       ELSE /\ sResult' = <<>>
            /\ spc' = "raised"
    /\ UNCHANGED <<sBits, sValue, sStatus>>

StatusReset ==
    /\ StatusOnly
    /\ spc \in {"returned", "raised"}
    /\ spc' = "idle"
    /\ sBits' = {}
    /\ sValue' = [lo |-> 0, hi |-> 0]
    /\ sStatus' = <<>>
    /\ sResult' = <<>>

StatusNext ==
    \/ CallStatus
    \/ StatusFill
    \/ StatusReturn
    \/ StatusReset

(***************************************************************************)
(* Omron._variable_area_read after the two code checks: the decoding of    *)
(* the payload resp[15:-2].  A number is held as num / den; a notation     *)
(* string or a status state as text, with den = 0.                         *)
(***************************************************************************)
Number(n, d) == [num |-> n, den |-> d, text |-> ""]
Text(t) == [num |-> 0, den |-> 0, text |-> t]

\* f"{...:0>w}": zeros on the left up to the width w
PadZero(digs, w) ==
    IF Len(digs) >= w THEN digs ELSE [h \in 1..(w - Len(digs)) |-> Ch0] \o digs

\* the w uppercase hex digits the peer sends for n
PeerDigits(n, w) == Upper(PadZero(HexLower(n), w))

RECURSIVE PeerPayload(_, _)
PeerPayload(raws, w) ==
    IF raws = <<>> THEN <<>>
    ELSE PeerDigits(Head(raws), w) \o PeerPayload(Tail(raws), w)

RawValues == {0, 2, 125, 65535}

\* the notation tables of the model: the parity notation of the spec, and
\* the same with a notation for one value of a divide-by-10 key
ParityNotes == {<<"Communications Parity", 0, "None">>,
                <<"Communications Parity", 1, "Even">>,
                <<"Communications Parity", 2, "Odd">>}

NotationTables == {ParityNotes,
                   ParityNotes \cup {<<"Load Current Upper Limit", 0, "OFF">>}}

\* self.C383_notation[key][str(value)], "" for the KeyError branch
NoteOf(notes, key, value) ==
    IF \E t \in notes : t[1] = key /\ t[2] = value
    THEN (CHOOSE t \in notes : t[1] = key /\ t[2] = value)[3]
    ELSE ""

DivideByTenKeys == {"Input Digital Filter Time Constant",
                    "Load Current Upper Limit",
                    "Total Run Time Alarm Set Value"}

\* the conversion with every E / 1 key but "Version" divided by 10
ConvertNoThreshold(area, key, value, notes) ==
    IF area \in {"E", "1"}
    THEN IF key = "Version" THEN Number(value, 100) ELSE Number(value, 10)
    ELSE IF NoteOf(notes, key, value) # "" THEN Text(NoteOf(notes, key, value))
    ELSE IF key \in DivideByTenKeys THEN Number(value, 10)
    ELSE Number(value, 1)

\* the conversion with the divide-by-10 rule tried before the notation
ConvertTenFirst(area, key, value, notes) ==
    IF area \in {"E", "1"}
    THEN IF key = "Version" THEN Number(value, 100)
         ELSE IF key = "Heater Burnout Threshold" THEN Number(value, 1)
         ELSE Number(value, 10)
    ELSE IF key \in DivideByTenKeys THEN Number(value, 10)
    ELSE IF NoteOf(notes, key, value) # "" THEN Text(NoteOf(notes, key, value))
    ELSE Number(value, 1)

\* the body of `for key, value in ret_dict.items()` for a key other than
\* "Status"
Convert(area, key, value, notes) ==
    IF area \in {"E", "1"}
    THEN IF key = "Version" THEN Number(value, 100)
         ELSE IF key = "Heater Burnout Threshold" THEN Number(value, 1)
         ELSE Number(value, 10)
    ELSE IF NoteOf(notes, key, value) # "" THEN Text(NoteOf(notes, key, value))
    ELSE IF key \in DivideByTenKeys THEN Number(value, 10)
    ELSE Number(value, 1)

\* status(value) for the integer value
StatusOfInt(value) ==
    LET v == [lo |-> value % AddrSpan, hi |-> value \div AddrSpan]
        d == Del(ZipDict(StatusLabelSeq, [h \in 1..32 |-> StatusEntry(v, h - 1)]),
                 "Not used.")
    IN  [k \in DOMAIN d |-> Text(d[k])]

DecodeOnly ==
    UNCHANGED <<frameVars, linkVars, regVars, getVars, statusVars, writeVars, setVars, logVars, startVars>>

DecodeInit ==
    /\ dpc = "idle"
    /\ dVarType = "-"
    /\ dStart = 0
    /\ dNum = 0
    /\ dRaws = <<>>
    /\ dNotes = {}
    /\ dResp = <<>>
    /\ dRet = <<>>
    /\ dResult = <<>>
    /\ dError = "none"

\* a read of num_elem elements at var_type + read_start got a good
\* response: resp = resp[15:-2]
CallDecode ==
    /\ DecodeOnly
    /\ dpc = "idle"
    /\ \E vt \in VarTypes, n \in 1..MaxDecoded :
        \E start \in AreaOffsets(AreaOf(vt)), raws \in [1..n -> RawValues] :
            /\ dVarType' = vt
            /\ dStart' = start
            /\ dNum' = n
            /\ dRaws' = raws
            /\ dResp' = PeerPayload(raws, ReadWidth(SubSeq(vt, 1, 1)))
    /\ dNotes' \in NotationTables
    /\ dpc' = "called"
    /\ UNCHANGED <<dRet, dResult, dError>>

\* the fill loop: ret_dict[self.addresses[var_type][addr]] = int(..., 16)
DecodeFill ==
    /\ DecodeOnly
    /\ dpc = "called"
    /\ LET w == ReadWidth(SubSeq(dVarType, 1, 1))
           addr(i) == Address(dVarType, dStart + i)
           raw(i) == ParseHex(Slice(dResp, w * i, w * i + w))
       IN  IF \E i \in 0..(dNum - 1) : ~Mapped(addr(i))
           THEN dpc' = "raised" /\ dError' = "KeyError" /\ dRet' = <<>>
           ELSE IF \E i \in 0..(dNum - 1) : raw(i) = -1
           THEN dpc' = "raised" /\ dError' = "ValueError" /\ dRet' = <<>>
           ELSE /\ dRet' = [h \in 1..dNum |->
                              [key |-> NameOf(addr(h - 1)), value |-> raw(h - 1)]]
                /\ dpc' = "filled"
                /\ dError' = "none"
    /\ UNCHANGED <<dVarType, dStart, dNum, dRaws, dNotes, dResp, dResult>>

\* the conversion loop and the return; on the key "Status" the mapping of
\* status(value) is returned instead
DecodeConvert ==
    /\ DecodeOnly
    /\ dpc = "filled"
    /\ LET area == AreaOf(dVarType)
           statusAt == {h \in 1..Len(dRet) : dRet[h].key = "Status"}
       IN  dResult' =
             IF area \in {"E", "1"} /\ statusAt # {}
             THEN StatusOfInt(dRet[CHOOSE h \in statusAt : TRUE].value)
             ELSE [k \in {dRet[h].key : h \in 1..Len(dRet)} |->
                     LET h == CHOOSE g \in 1..Len(dRet) : dRet[g].key = k
                     IN  Convert(area, k, dRet[h].value, dNotes)]
    /\ dpc' = "returned"
    /\ UNCHANGED <<dVarType, dStart, dNum, dRaws, dNotes, dResp, dRet, dError>>

DecodeReset ==
    /\ DecodeOnly
    /\ dpc \in {"returned", "raised"}
    /\ dpc' = "idle"
    /\ dVarType' = "-"
    /\ dStart' = 0
    /\ dNum' = 0
    /\ dRaws' = <<>>
    /\ dNotes' = {}
    /\ dResp' = <<>>
    /\ dRet' = <<>>
    /\ dResult' = <<>>
    /\ dError' = "none"

DecodeNext ==
    \/ CallDecode
    \/ DecodeFill
    \/ DecodeConvert
    \/ DecodeReset

(***************************************************************************)
(* Omron._variable_area_write: the encoding of set_values.  A value v is   *)
(* held in tenths (10 * v), with the Python type it is passed as: hex()    *)
(* takes an int only.                                                      *)
(***************************************************************************)
Value(t, int) == [tenths |-> t, isInt |-> int]

WriteTenths == {-50, 0, 5, 50, 125, 140, 70000}

WriteValues ==
    {Value(t, FALSE) : t \in WriteTenths} \cup
    {Value(t, TRUE) : t \in {x \in WriteTenths : x % 10 = 0}}

\* var_addr[2:6], the four uppercase hex digits of an offset
OffsetDigits(off) == Upper(PadZero(HexLower(off), 4))

\* int(c): is the character a decimal digit, and its value
IsDecimalChar(c) == c >= 48 /\ c <= 57

\* the condition of lines 266-269 on var_addr: for the E area
\* int(var_addr[5]) != 6 or int(var_addr[4:5]) != 14, where var_addr[4:5]
\* is one character; for the 1 area int(var_addr[5], 16) != 14
Scales(vt, off) ==
    LET d == OffsetDigits(off)
    IN  \/ /\ AreaOf(vt) = "E"
           /\ (d[4] - Ch0 # 6 \/ d[3] - Ch0 # 14)
        \/ /\ AreaOf(vt) = "1"
           /\ HexVal(d[4]) # 14

\* int(var_addr[5]) or int(var_addr[4:5]) raises ValueError on a letter
ScalesRaises(vt, off) ==
    LET d == OffsetDigits(off)
    IN  /\ AreaOf(vt) = "E"
        /\ \/ ~IsDecimalChar(d[4])
           \/ (d[4] - Ch0 = 6 /\ ~IsDecimalChar(d[3]))

\* hex(n)[2:]: the digits of n, and for a negative n ("-0x...") the "x"
\* and the digits of -n
HexFromTwo(n) == IF n >= 0 THEN HexLower(n) ELSE <<120>> \o HexLower(-n)

\* the digits appended for one value: "TypeError" when hex() gets a float
EncodeValue(vt, off, v) ==
    IF Scales(vt, off)
    THEN Upper(PadZero(HexFromTwo(v.tenths), ReadWidth(SubSeq(vt, 1, 1))))
    ELSE IF v.isInt
    THEN Upper(PadZero(HexFromTwo(v.tenths \div 10), ReadWidth(SubSeq(vt, 1, 1))))
    ELSE <<>>

\* the command body of lines 245-280: MRC and SRC, var_addr, the bit
\* position, the four digits of the count, and the fields of the values
RECURSIVE Concat(_)
Concat(q) == IF q = <<>> THEN <<>> ELSE Head(q) \o Concat(Tail(q))

WriteBody(vt, off, digits) ==
    <<Ch0, 49, Ch0, 50>> \o Upper(HexLower(Address(vt, off))) \o <<Ch0, Ch0>>
    \o Upper(PadZero(HexLower(Len(digits)), 4)) \o Concat(digits)

WriteOnly ==
    UNCHANGED <<frameVars, linkVars, regVars, getVars, statusVars, decodeVars, setVars, logVars, startVars>>

WriteInit ==
    /\ wpc = "idle"
    /\ wVarType = "-"
    /\ wStart = 0
    /\ wValues = <<>>
    /\ wDigits = <<>>
    /\ wBack = <<>>
    /\ wError = "none"

\* _variable_area_write(var_addr, set_values)
CallWrite ==
    /\ WriteOnly
    /\ wpc = "idle"
    /\ \E vt \in VarTypes, n \in 1..MaxWritten :
        \E start \in AreaOffsets(AreaOf(vt)), vals \in [1..n -> WriteValues] :
            /\ wVarType' = vt
            /\ wStart' = start
            /\ wValues' = vals
    /\ wpc' = "called"
    /\ UNCHANGED <<wDigits, wBack, wError>>

\* the loop over set_values: the same var_addr decides the scaling of
\* every element
WriteEncode ==
    /\ WriteOnly
    /\ wpc = "called"
    /\ IF ScalesRaises(wVarType, wStart)
       THEN wpc' = "raised" /\ wError' = "ValueError" /\ wDigits' = <<>>
       ELSE IF \E i \in 1..Len(wValues) :
                  EncodeValue(wVarType, wStart, wValues[i]) = <<>>
       THEN wpc' = "raised" /\ wError' = "TypeError" /\ wDigits' = <<>>
       ELSE /\ wDigits' = [i \in 1..Len(wValues) |->
                             EncodeValue(wVarType, wStart, wValues[i])]
            /\ wpc' = "encoded"
            /\ wError' = "none"
    /\ UNCHANGED <<wVarType, wStart, wValues, wBack>>

\* the device holds what was written: a read of the same elements decodes
\* the same digits (no element is "Status", every element is in the table,
\* every field has the width of the family and hex digits only)
WriteReadBack ==
    /\ WriteOnly
    /\ wpc = "encoded"
    /\ \A i \in 1..Len(wValues) :
          /\ Mapped(Address(wVarType, wStart + i - 1))
          /\ NameOf(Address(wVarType, wStart + i - 1)) # "Status"
          /\ Len(wDigits[i]) = ReadWidth(SubSeq(wVarType, 1, 1))
          /\ ParseHex(wDigits[i]) # -1
    /\ wBack' = [i \in 1..Len(wValues) |->
                   Convert(AreaOf(wVarType),
                           NameOf(Address(wVarType, wStart + i - 1)),
                           ParseHex(wDigits[i]), ParityNotes)]
    /\ wpc' = "read"
    /\ UNCHANGED <<wVarType, wStart, wValues, wDigits, wError>>

WriteReset ==
    /\ WriteOnly
    /\ wpc \in {"encoded", "read", "raised"}
    /\ wpc' = "idle"
    /\ wVarType' = "-"
    /\ wStart' = 0
    /\ wValues' = <<>>
    /\ wDigits' = <<>>
    /\ wBack' = <<>>
    /\ wError' = "none"

WriteNext ==
    \/ CallWrite
    \/ WriteEncode
    \/ WriteReadBack
    \/ WriteReset

(***************************************************************************)
(* Omron.set(comm).  A value of comm is a number, held in tenths, or a     *)
(* string.                                                                 *)
(***************************************************************************)
Num(t) == [tenths |-> t, text |-> ""]
Str(x) == [tenths |-> 0, text |-> x]

SetKeys == {"Communications Main Setting 1", "Output Upper Limit",
            "Communications Parity", "Main Setting Automatic Input Selection",
            "Main Setting Manual Input Selection", "Load Current Upper Limit",
            "No Such Name"}

SetValues == {Num(0), Num(125), Num(1000), Str("Even"), Str("Odd"),
              Str("Communications")}

\* the mappings of the model: up to MaxKeys different keys, in any order
SetComms ==
    {q \in UNION {[1..n -> SetKeys \X SetValues] : n \in 1..MaxKeys} :
        \A i, j \in 1..Len(q) : i # j => q[i][1] # q[j][1]}

\* the first loop: comm_add is the address of the last match in the table,
\* and is left as it was when no name matches
LastAddress(prev, c, order) ==
    IF HitsOf(c, order) = <<>> THEN prev
    ELSE <<AddressIn(HitsOf(c, order)[Len(HitsOf(c, order))], c)>>

\* C383_notation as set visits it: the keys in the order of the document,
\* under each key its (value, notation) items.  The parity notation alone,
\* and with it two input selections that both have a notation
\* "Communications", in either order.
ParitySeq == <<<<"Communications Parity", 0, "None">>,
               <<"Communications Parity", 1, "Even">>,
               <<"Communications Parity", 2, "Odd">>>>

AutoNote == <<"Main Setting Automatic Input Selection", 1, "Communications">>
ManualNote == <<"Main Setting Manual Input Selection", 2, "Communications">>

NotationSeqs == {ParitySeq,
                 ParitySeq \o <<AutoNote, ManualNote>>,
                 ParitySeq \o <<ManualNote, AutoNote>>}

Range(q) == {q[i] : i \in 1..Len(q)}

\* the items whose notation equals the string comm[c]
NoteHits(v, notes) == SelectSeq(notes, LAMBDA t : t[3] = v.text)

\* the second loop: comm[c] is compared with every notation of every key
\* and replaced by the value of the first that equals it (the digits put
\* in its place equal no notation of the tables above)
Translate(c, v, notes) ==
    IF v.text # "" /\ NoteHits(v, notes) # <<>>
    THEN Num(10 * NoteHits(v, notes)[1][2])
    ELSE v

\* int(comm[c]): the fraction of a float is cut off
IntOf(v) == v.tenths \div 10

SetOnly ==
    UNCHANGED <<frameVars, linkVars, regVars, getVars, statusVars, decodeVars,
                writeVars, logVars, startVars>>

SetInit ==
    /\ tpc = "idle"
    /\ tComm = <<>>
    /\ tIndex = 0
    /\ tAddr = <<>>
    /\ tWrites = <<>>
    /\ tError = "none"
    /\ tNotes = ParitySeq

CallSetComm ==
    /\ SetOnly
    /\ tpc = "idle"
    /\ tComm' \in SetComms
    /\ tNotes' \in NotationSeqs
    /\ tIndex' = 0
    /\ tAddr' = <<>>
    /\ tWrites' = <<>>
    /\ tError' = "none"
    /\ tpc' = "loop"

\* one pass of `for c in list(comm.keys())` whose write returns
SetWrite ==
    /\ SetOnly
    /\ tpc = "loop"
    /\ tIndex < Len(tComm)
    /\ LET c == tComm[tIndex + 1][1]
           v == Translate(c, tComm[tIndex + 1][2], tNotes)
           a == LastAddress(tAddr, c, famOrder)
       IN  /\ a # <<>>
           /\ v.text = ""
           /\ tAddr' = a
           /\ tWrites' = Append(tWrites, [addr |-> a[1], value |-> IntOf(v)])
    /\ tIndex' = tIndex + 1
    /\ UNCHANGED <<tpc, tComm, tError, tNotes>>

\* a pass that raises: comm_add unbound, int() of a string that is no
\* number, or a fault of the write
SetWriteRaises ==
    /\ SetOnly
    /\ tpc = "loop"
    /\ tIndex < Len(tComm)
    /\ LET c == tComm[tIndex + 1][1]
           v == Translate(c, tComm[tIndex + 1][2], tNotes)
           a == LastAddress(tAddr, c, famOrder)
       IN  /\ tAddr' = a
           /\ IF v.text # "" THEN tError' = "ValueError" /\ tWrites' = tWrites
              ELSE IF a = <<>> THEN tError' = "UnboundLocalError" /\ tWrites' = tWrites
              ELSE /\ tError' = "WriteFault"
                   /\ tWrites' = Append(tWrites, [addr |-> a[1], value |-> IntOf(v)])
    /\ tpc' = "raised"
    /\ UNCHANGED <<tComm, tIndex, tNotes>>

SetReturn ==
    /\ SetOnly
    /\ tpc = "loop"
    /\ tIndex = Len(tComm)
    /\ tpc' = "returned"
    /\ UNCHANGED <<tComm, tIndex, tAddr, tWrites, tError, tNotes>>

SetReset ==
    /\ SetOnly
    /\ tpc \in {"returned", "raised"}
    /\ tpc' = "idle"
    /\ tComm' = <<>>
    /\ tIndex' = 0
    /\ tAddr' = <<>>
    /\ tWrites' = <<>>
    /\ tError' = "none"
    /\ tNotes' = ParitySeq

SetNext ==
    \/ CallSetComm
    \/ SetWrite
    \/ SetWriteRaises
    \/ SetReturn
    \/ SetReset

(***************************************************************************)
(* DAQLogging: one run of logging() with the queues start_logging made.    *)
(* Time is counted in units from `start`; 1 / rate is Period units.  A     *)
(* command on qin is "Stop" or the list [callable, args] that              *)
(* DAQLogging.get / set put.                                               *)
(***************************************************************************)
\* two callers of DAQLogging.get / set
Callers == {1, 2}

Durations == {n * Period : n \in 1..MaxTicks}

\* how long a tick's work (the fetch and the insert) may take
WorkTimes == 0..(Period + 1)

Stop == [kind |-> "Stop", from |-> 0]

ListCommand(c) == [kind |-> "List", from |-> c]

LogOnly ==
    UNCHANGED <<frameVars, linkVars, regVars, getVars, statusVars, decodeVars,
                writeVars, setVars, startVars>>

LogInit ==
    /\ kpc = "off"
    /\ writeAsync = FALSE
    /\ duration = 0
    /\ timeNs = 0
    /\ reps = 0
    /\ qin = <<>>
    /\ qout = <<>>
    /\ rows = 0
    /\ snaps = <<>>
    /\ warnings = 0
    /\ sinceStop = 0
    /\ waiting = {}
    /\ got = [c \in Callers |-> 0]

\* start_logging(write_async, duration, rate): the queues are made and the
\* thread runs logging() up to `start = time.time_ns()`
StartLogging ==
    /\ LogOnly
    /\ kpc = "off"
    /\ writeAsync' \in BOOLEAN
    /\ duration' \in Durations
    /\ kpc' = "top"
    /\ UNCHANGED <<timeNs, reps, qin, qout, rows, snaps, warnings, sinceStop, waiting, got>>

\* stop_logging: if self.qin: self.qin.put("Stop")
StopLogging ==
    /\ LogOnly
    /\ kpc # "off"
    /\ Len(qin) < MaxQueue
    /\ qin' = Append(qin, Stop)
    /\ UNCHANGED <<kpc, writeAsync, duration, timeNs, reps, qout, rows, snaps,
                   warnings, sinceStop, waiting, got>>

\* DAQLogging.get / set up to the wait: self.qin.put([self.Daq.get, *args])
Submit ==
    /\ LogOnly
    /\ kpc # "off"
    /\ Len(qin) < MaxQueue
    /\ \E c \in Callers \ waiting :
        /\ qin' = Append(qin, ListCommand(c))
        /\ waiting' = waiting \cup {c}
    /\ UNCHANGED <<kpc, writeAsync, duration, timeNs, reps, qout, rows, snaps,
                   warnings, sinceStop, got>>

\* while self.qout.empty(): pass; return self.qout.get()
CallerPoll ==
    /\ LogOnly
    /\ \E c \in waiting :
        IF qout = <<>>
        THEN UNCHANGED <<qout, waiting, got>>
        ELSE /\ qout' = Tail(qout)
             /\ waiting' = waiting \ {c}
             /\ got' = [got EXCEPT ![c] = Head(qout).from]
    /\ UNCHANGED <<kpc, writeAsync, duration, timeNs, reps, qin, rows, snaps,
                   warnings, sinceStop>>

\* time passes between two passes of the loop
Pass ==
    /\ LogOnly
    /\ kpc = "top"
    /\ timeNs <= duration
    /\ timeNs' = timeNs + 1
    /\ UNCHANGED <<kpc, writeAsync, duration, reps, qin, qout, rows, snaps,
                   warnings, sinceStop, waiting, got>>

\* the test of the loop with one more unit of time allowed
WithinDurationAndOne(t, d) == t <= d + 1

\* (time.time_ns() - start) / 1e9 <= duration
WithinDuration(t, d) == t <= d

\* while (time.time_ns() - start) / 1e9 <= duration
LoopCheck ==
    /\ LogOnly
    /\ kpc = "top"
    /\ kpc' = IF WithinDuration(timeNs, duration) THEN "poll" ELSE "ended"
    /\ UNCHANGED <<writeAsync, duration, timeNs, reps, qin, qout, rows, snaps,
                   warnings, sinceStop, waiting, got>>

\* a command that is not "Stop" goes on to the test of its type
AfterCommandNoBreak(kind) ==
    IF kind = "List" THEN "raised" ELSE "due"

\* where the loop goes with the command it took from qin: "Stop" breaks;
\* for a list, isinstance(comm[0], function) is evaluated, and the module
\* has no name `function`: NameError
AfterCommand(kind) ==
    IF kind = "Stop" THEN "ended"
    ELSE IF kind = "List" THEN "raised"
    ELSE "due"

\* if not self.qin.empty(): comm = self.qin.get() ...
Poll ==
    /\ LogOnly
    /\ kpc = "poll"
    /\ IF qin = <<>>
       THEN kpc' = "due" /\ qin' = qin
       ELSE kpc' = AfterCommand(Head(qin).kind) /\ qin' = Tail(qin)
    /\ UNCHANGED <<writeAsync, duration, timeNs, reps, qout, rows, snaps,
                   warnings, sinceStop, waiting, got>>

\* the time of tick r + 1 taken one period late
DueAtLate(r) == (r + 2) * Period

\* the time at which the next snapshot is due, from start
DueAt(r) == (r + 1) * Period

\* if time.time_ns() / 1e9 - (reps * 1 / rate + start / 1e9) >= 1 / rate:
\* time1 is read and the tick begins
TickDue ==
    /\ LogOnly
    /\ kpc = "due"
    /\ IF timeNs >= DueAt(reps)
       THEN /\ kpc' = "fetch"
            /\ sinceStop' = IF qin # <<>> /\ Head(qin) = Stop
                            THEN sinceStop + 1 ELSE sinceStop
       ELSE /\ kpc' = "top"
            /\ sinceStop' = sinceStop
    /\ UNCHANGED <<writeAsync, duration, timeNs, reps, qin, qout, rows, snaps,
                   warnings, waiting, got>>

\* insert_data(rows, conn) for the snapshot k held in rows
Inserted(q, k) ==
    [i \in 1..Len(q) |-> IF i = k THEN [q[i] EXCEPT !.persisted = @ + 1] ELSE q[i]]

\* the tick: write_async inserts the rows of the tick before together with
\* the fetch, otherwise the fetch is followed by the insert of its own
\* rows; then reps += 1
TickWork ==
    /\ LogOnly
    /\ kpc = "fetch"
    /\ \E w \in WorkTimes :
        /\ timeNs' = timeNs + w
        /\ LET new == [at |-> timeNs, due |-> DueAt(reps), work |-> w, persisted |-> 0]
               all == Append(snaps, new)
           IN  snaps' = IF writeAsync THEN Inserted(all, rows)
                        ELSE Inserted(all, Len(all))
    /\ rows' = Len(snaps) + 1
    /\ reps' = reps + 1
    /\ kpc' = "drift"
    /\ UNCHANGED <<writeAsync, duration, qin, qout, warnings, sinceStop, waiting, got>>

\* while (time.time_ns() - start) / 1e9 / (1 / rate) >= 1.00 * reps + 1
Drift ==
    /\ LogOnly
    /\ kpc = "drift"
    /\ IF timeNs >= DueAt(reps)
       THEN reps' = reps + 1 /\ warnings' = warnings + 1 /\ kpc' = kpc
       ELSE reps' = reps /\ warnings' = warnings /\ kpc' = "top"
    /\ UNCHANGED <<writeAsync, duration, timeNs, qin, qout, rows, snaps,
                   sinceStop, waiting, got>>

LoopStep ==
    \/ LoopCheck
    \/ Poll
    \/ TickDue
    \/ TickWork
    \/ Drift

LogNext ==
    \/ StartLogging
    \/ StopLogging
    \/ Submit
    \/ CallerPoll
    \/ Pass
    \/ LoopCheck
    \/ Poll
    \/ TickDue
    \/ TickWork
    \/ Drift

(***************************************************************************)
(* DAQLogging.start_logging called more than once on one instance: every   *)
(* call makes two new queues, assigns them to self.qin and self.qout, and  *)
(* starts a thread that runs logging().  The loop reads self.qin anew in   *)
(* every pass.                                                             *)
(***************************************************************************)
StartOnly ==
    UNCHANGED <<frameVars, linkVars, regVars, getVars, statusVars, decodeVars,
                writeVars, setVars, logVars>>

StartInit ==
    /\ selfQin = 0
    /\ loops = <<>>
    /\ queues = <<>>

\* self.qin = Queue(); self.qout = Queue(); Thread(...).start()
NewLoop ==
    /\ StartOnly
    /\ Len(loops) < MaxStarts
    /\ selfQin' = Len(loops) + 1
    /\ loops' = Append(loops, [made |-> Len(loops) + 1, runs |-> TRUE, read |-> {}])
    /\ queues' = Append(queues, 0)

\* stop_logging: self.qin.put("Stop")
PutStop ==
    /\ StartOnly
    /\ selfQin # 0
    /\ queues[selfQin] < MaxQueue
    /\ queues' = [queues EXCEPT ![selfQin] = @ + 1]
    /\ UNCHANGED <<selfQin, loops>>

\* one pass of a running loop: self.qin.empty(), and self.qin.get() with
\* the break when a "Stop" is there
LoopReadsQueue ==
    /\ StartOnly
    /\ \E i \in 1..Len(loops) :
        /\ loops[i].runs
        /\ IF queues[selfQin] > 0
           THEN /\ queues' = [queues EXCEPT ![selfQin] = @ - 1]
                /\ loops' = [loops EXCEPT ![i] =
                                [@ EXCEPT !.read = @ \cup {selfQin}, !.runs = FALSE]]
           ELSE /\ queues' = queues
                /\ loops' = [loops EXCEPT ![i] = [@ EXCEPT !.read = @ \cup {selfQin}]]
    /\ UNCHANGED selfQin

\* the duration of a loop has elapsed
LoopEnds ==
    /\ StartOnly
    /\ \E i \in 1..Len(loops) :
        /\ loops[i].runs
        /\ loops' = [loops EXCEPT ![i] = [@ EXCEPT !.runs = FALSE]]
    /\ UNCHANGED <<selfQin, queues>>

StartNext ==
    \/ NewLoop
    \/ PutStop
    \/ LoopReadsQueue
    \/ LoopEnds

Init ==
    /\ FrameInit /\ LinkInit /\ RegInit /\ GetInit /\ famOrder = OrderCFirst
    /\ StatusInit /\ DecodeInit /\ WriteInit /\ SetInit /\ LogInit /\ StartInit

InitGet ==
    /\ FrameInit /\ LinkInit /\ RegInit /\ GetInit /\ famOrder \in FamilyOrders
    /\ StatusInit /\ DecodeInit /\ WriteInit /\ SetInit /\ LogInit /\ StartInit

SpecFrame == Init /\ [][FrameNext]_vars

SpecLink == Init /\ [][LinkNext]_vars

SpecRegistry == Init /\ [][RegNext]_vars

SpecGet == InitGet /\ [][GetNext]_vars

SpecStatus == Init /\ [][StatusNext]_vars

SpecDecode == Init /\ [][DecodeNext]_vars

SpecWrite == Init /\ [][WriteNext]_vars

SpecSet == InitGet /\ [][SetNext]_vars

SpecStart == Init /\ [][StartNext]_vars

SpecLog == Init /\ [][LogNext]_vars

\* the thread of logging() keeps running, and so does a caller's wait loop
SpecLogFair == SpecLog /\ WF_vars(LoopStep) /\ WF_vars(CallerPoll)

\* and the clock read by time.time_ns() in every pass of the loop advances
SpecLogClock == SpecLogFair /\ SF_vars(Pass)

(***************************************************************************)
(* The bit-level meaning of XOR, used to state the checksum claims:        *)
(* bit k of the XOR of a set of bytes is the parity of the number of       *)
(* those bytes that have bit k set.                                        *)
(***************************************************************************)
Pow2(k) == IF k = 0 THEN 1 ELSE IF k = 1 THEN 2 ELSE IF k = 2 THEN 4
           ELSE IF k = 3 THEN 8 ELSE IF k = 4 THEN 16 ELSE IF k = 5 THEN 32
           ELSE IF k = 6 THEN 64 ELSE 128

BitOf(n, k) == (n \div Pow2(k)) % 2

\* does v equal the XOR of s[from..Len(s)]?
IsXorOf(v, s, from) ==
    /\ v \in 0..255
    /\ \A k \in 0..7 :
         BitOf(v, k) = Cardinality({i \in from..Len(s) : BitOf(s[i], k) = 1}) % 2

\* C1: when _bcc_calc returns, its result is the XOR of the ordinals of
\* every element of the frame but the first (STX excluded, ETX included);
\* ['A','B','C'] gives 0x42 ^ 0x43 = 0x01.
C1_Checksum ==
    (fpc = "done" /\ Len(byteList) >= 1) =>
        /\ IsXorOf(bcc, byteList, 2)
        /\ (byteList = <<65, 66, 67>> => bcc = 1)

C1_Witness ==
    /\ fpc = "done"
    /\ fOp = "bcc_calc"
    /\ byteList = <<65, 66, 67>>
    /\ bcc = 1

\* Uppercase hex digit d (0..15) as a character.
HexChar(d) == IF d < 10 THEN 48 + d ELSE 55 + d

\* C2: for a unit number in 0..255 the frame built by _comm_frame is STX,
\* the unit number as two zero-padded uppercase hex digits, "000", the body
\* unchanged, ETX, and one checksum byte that is the XOR of every byte
\* after STX up to and including ETX.
C2_CommFrame ==
    (fpc = "done" /\ fOp = "comm_frame") =>
        LET n == Len(body) IN
        /\ Len(frameOut) = n + 8
        /\ frameOut[1] = 2
        /\ frameOut[2] = HexChar(unitNo \div 16)
        /\ frameOut[3] = HexChar(unitNo % 16)
        /\ frameOut[4] = 48 /\ frameOut[5] = 48 /\ frameOut[6] = 48
        /\ \A i \in 1..n : frameOut[6 + i] = body[i]
        /\ frameOut[n + 7] = 3
        /\ IsXorOf(frameOut[n + 8], SubSeq(frameOut, 1, n + 7), 2)

C2_Witness ==
    /\ fpc = "done"
    /\ fOp = "comm_frame"
    /\ unitNo = 10
    /\ body = AttrReadBody
    /\ frameOut = <<2, 48, 65, 48, 48, 48, 48, 53, 48, 51, 3, 68>>

(***************************************************************************)
(* Claims about one exchange and the operation that issued it (SpecLink).  *)
(***************************************************************************)
\* l holds a terminator, and exactly one byte after its first terminator
EtxPlusOne(l) ==
    \E i \in 1..Len(l) :
        /\ l[i] = 3
        /\ \A j \in 1..(i - 1) : l[j] # 3
        /\ Len(l) = i + 1

\* the two code fields of a response, by position
EndFieldIs00(l) == Len(l) >= 7 /\ l[6] = 48 /\ l[7] = 48

RcFieldIs0000(l) ==
    Len(l) >= 15 /\ l[12] = 48 /\ l[13] = 48 /\ l[14] = 48 /\ l[15] = 48

\* C3: whenever _write_readline ends without a read attempt timing out, the
\* returned buffer holds the terminator 0x03 followed by exactly one further
\* byte (the peer's checksum byte), however the peer's bytes are split
\* across reads.
C3_TerminatorThenChecksum ==
    (lpc = "returned" /\ ~timedOut) => EtxPlusOne(line)

\* C4: when a read attempt timed out before a complete frame was received,
\* the operation that issued the exchange fails: it returns no value decoded
\* from the incomplete frame.
C4_NoValueFromIncompleteFrame ==
    (lpc = "done" /\ timedOut) => outcome # "returned"

\* C5: every operation that uses a response fails, and returns no payload,
\* when the end code field is not "00" or the response code field is not
\* "0000".
C5_BothCodesChecked ==
    (lpc = "done" /\ outcome # "UnboundLocalError"
        /\ (~EndFieldIs00(line) \/ ~RcFieldIs0000(line)))
    => outcome # "returned"

\* C6: new_device returns a Device if and only if the response passes both
\* code checks and the first four characters of its payload resp[15:-6] are
\* "G3PW"; when the checks pass and the prefix is anything else it fails
\* with the model-mismatch error, and no Device is created.
C6_PayloadIsG3PW(l) ==
    /\ Len(l) >= 25
    /\ l[16] = 71 /\ l[17] = 51 /\ l[18] = 80 /\ l[19] = 87

C6_NewDevice ==
    (lpc = "done" /\ op = "new_device") =>
        LET codes == /\ outcome # "UnboundLocalError"
                     /\ EndFieldIs00(line)
                     /\ RcFieldIs0000(line)
        IN  /\ deviceCreated <=> (codes /\ C6_PayloadIsG3PW(line))
            /\ (outcome = "returned") <=> deviceCreated
            /\ (codes /\ ~C6_PayloadIsG3PW(line)) <=> (outcome = "NotG3PW")

C6_Witness ==
    /\ lpc = "done"
    /\ op = "new_device"
    /\ line = Response(End00, Rc0000, PayG3PW)
    /\ deviceCreated
    /\ outcome = "returned"

(***************************************************************************)
(* Claims about the registry fan-out (SpecRegistry).                       *)
(***************************************************************************)
\* the tasks of the fan-out target different names bound to different clients
DistinctTargets ==
    \A i, j \in 1..Len(tasks) :
        i # j => (/\ tasks[i].dev # tasks[j].dev
                  /\ tasks[i].dev \in Registered
                  /\ tasks[j].dev \in Registered
                  /\ devList[tasks[i].dev] # devList[tasks[j].dev])

\* C7: in a get or set fan-out, a fault on one device neither cancels nor
\* fails the operations on the other targeted devices: when the call ends,
\* every task that did not itself fail has finished and its result is in
\* the mapping returned to the caller.
C7_FaultIsolation ==
    (/\ gcall \in {"returned", "raised"}
     /\ DistinctTargets
     /\ \A i \in 1..Len(tasks) : tasks[i].st = "failed" => tasks[i].why = "fault")
    => \A i \in 1..Len(tasks) :
          tasks[i].st # "failed" =>
              (tasks[i].st = "done" /\ tasks[i].dev \in gReturned)

\* C8: at every moment at most one exchange is in flight on a given
\* device's transport.
C8_OneExchangePerDevice ==
    \A c \in Clients :
        Cardinality({i \in 1..Len(tasks) :
                        tasks[i].st = "exchanging" /\ tasks[i].client = c}) <= 1

(***************************************************************************)
(* Claims about the coalescing reads of get (SpecGet).                     *)
(***************************************************************************)
\* the resolved addresses are a, a + 1, ..., a + n - 1
ContiguousRun(list) ==
    \A h \in 1..Len(list) : list[h] = list[1] + h - 1

GetLoopOver == gpc \in {"filter", "returned", "raised"} /\ comm # {}

\* C9: when the resolved addresses of the requested names lie in one family
\* and form a contiguous run of n offsets, 2 <= n <= 8, get issues exactly
\* one read, at the lowest offset, with element count n.
C9_OneBatchedRead ==
    (/\ GetLoopOver
     /\ Len(commList) \in 2..8
     /\ ContiguousRun(commList))
    => reads = <<[addr |-> commList[1], n |-> Len(commList)]>>

C9_Witness ==
    /\ gpc = "returned"
    /\ Len(commList) = 8
    /\ ContiguousRun(commList)
    /\ commList[1] = Address("C1", 1)
    /\ reads = <<[addr |-> Address("C1", 1), n |-> 8]>>

\* the requested addresses a read covers
Covered(r) == {a \in SetOfSeq(commList) : a >= r.addr /\ a < r.addr + r.n}

\* C10: no read issued by get has an element count above 8, and two
\* requested addresses whose offsets differ by more than 7, or that belong
\* to different families, are never covered by the same read.
C10_BatchBound ==
    \A h \in 1..Len(reads) :
        /\ reads[h].n <= 8
        /\ \A a, b \in Covered(reads[h]) :
              /\ CodeOf(a) = CodeOf(b)
              /\ OffsetOf(a) - OffsetOf(b) <= 7

C10_Witness ==
    /\ gpc = "returned"
    /\ Len(commList) = 9
    /\ ContiguousRun(commList)
    /\ Len(reads) = 2
    /\ reads[1].n = 8
    /\ reads[2] = [addr |-> commList[9], n |-> 1]

(***************************************************************************)
(* Claims about the mapping get returns (SpecGet).                         *)
(***************************************************************************)
\* C11: the mapping returned by get(names), with or without ignoreError,
\* has no key other than the requested names, plus the labels of the Status
\* sub-fields only when "Status" itself was requested.
C11_OnlyRequestedKeys ==
    (gpc = "returned" /\ comm # {})
    => retKeys \subseteq
         (comm \cup (IF "Status" \in comm THEN StatusKeys ELSE {}))

\* C12: with ignoreError unset and "Status" not requested, get raises
\* KeyError("Not all values were read.") exactly when at least one requested
\* name is absent from the decoded result; with ignoreError set it never
\* raises it and returns the mapping it has.
SomeNameAbsent == \E c \in comm : c \notin retKeys

GetChecked == gpc \in {"returned", "raised"} /\ comm # {} /\ gError # "ValueError"
              /\ gError # "KeyError"

C12_CountMismatch ==
    GetChecked =>
        /\ (~ignoreError /\ "Status" \notin comm)
              => ((gError = "NotAllValuesRead") <=> SomeNameAbsent)
        /\ ignoreError => gpc = "returned"

\* every requested name is in the table, is given once, and no read raised
AllNamesRead ==
    /\ GetChecked
    /\ Len(commSeq) = Cardinality(comm)
    /\ \A c \in comm : \E h \in 1..Len(commList) : NameOf(commList[h]) = c

\* C13: when "Status" is among the requested names and every requested
\* name was read, get with ignoreError unset returns normally: the count
\* check accepts the other requested names plus the Status sub-fields that
\* status() makes from the label table.
C13_StatusAccepted ==
    (AllNamesRead /\ "Status" \in comm /\ ~ignoreError) => gpc = "returned"

(***************************************************************************)
(* Claims about status() (SpecStatus).                                     *)
(***************************************************************************)
\* the labels of the bits that are not reserved
LabelOfBit(i) == StatusLabelSeq[i + 1]

\* C14: for every 32-bit value the mapping status returns has no entry
\* derived from bit 7 or bits 12..15, and never has the key "Not used.".
C14_ReservedBitsAbsent ==
    spc = "returned" =>
        /\ "Not used." \notin DOMAIN sResult
        /\ \A i \in ReservedBits : LabelOfBit(i) \notin DOMAIN sResult
        /\ \A k \in DOMAIN sResult : sResult[k] # "Q"
        /\ Cardinality(DOMAIN sResult) = 32 - Cardinality(ReservedBits)

C14_Witness ==
    /\ spc = "returned"
    /\ sBits = {7, 12}
    /\ sValue = [lo |-> 4224, hi |-> 0]
    /\ DOMAIN sResult = StatusKeys

\* the state the claim gives for bit i when it is b
C15_Expected(i, b) ==
    IF i \in (0..6) \cup (8..11) THEN (IF b = 0 THEN "No Error" ELSE "Error")
    ELSE IF i \in (16..18) \cup (22..31) THEN (IF b = 0 THEN "OFF" ELSE "ON")
    ELSE IF i = 19 THEN (IF b = 0 THEN "Operation Level" ELSE "Initial Setting Level")
    ELSE IF i = 20 THEN (IF b = 0 THEN "Automatic" ELSE "Manual")
    ELSE (IF b = 0 THEN "Phase Control" ELSE "Optimum Cycle Control")

\* C15: for every 32-bit value v and every bit i that is not reserved,
\* status(v) gives the label of bit i the state of bit i of v alone:
\* No Error / Error for bits 0-6 and 8-11, OFF / ON for bits 16-18 and
\* 22-31, Operation Level / Initial Setting Level for bit 19, Automatic /
\* Manual for bit 20, Phase Control / Optimum Cycle Control for bit 21.
C15_StateOfEachBit ==
    spc = "returned" =>
        \A i \in StatusBits \ ReservedBits :
            /\ LabelOfBit(i) \in DOMAIN sResult
            /\ sResult[LabelOfBit(i)] = C15_Expected(i, IF i \in sBits THEN 1 ELSE 0)

C15_Witness ==
    /\ spc = "returned"
    /\ sBits = {19, 21}
    /\ sResult[LabelOfBit(19)] = "Initial Setting Level"
    /\ sResult[LabelOfBit(20)] = "Automatic"
    /\ sResult[LabelOfBit(21)] = "Optimum Cycle Control"
    /\ sResult[LabelOfBit(0)] = "No Error"
    /\ sResult[LabelOfBit(31)] = "OFF"

(***************************************************************************)
(* Claims about the decoding of a read (SpecDecode).                       *)
(***************************************************************************)
\* the name of the i-th element read (i from 1)
ElementKey(i) == NameOf(Address(dVarType, dStart + i - 1))

ReadHasStatus == \E i \in 1..dNum : ElementKey(i) = "Status"

\* C16: for a read in the E or 1 area, each returned value is the integer
\* of that element's hex digits divided by 100 for "Version", left as it is
\* for "Heater Burnout Threshold", and divided by 10 for every other key
\* that is not "Status".
C16_ScalingE1 ==
    (dpc = "returned" /\ AreaOf(dVarType) \in {"E", "1"} /\ ~ReadHasStatus)
    => /\ DOMAIN dResult = {ElementKey(i) : i \in 1..dNum}
       /\ \A i \in 1..dNum :
            dResult[ElementKey(i)] =
               [num |-> dRaws[i],
                den |-> IF ElementKey(i) = "Version" THEN 100
                        ELSE IF ElementKey(i) = "Heater Burnout Threshold" THEN 1
                        ELSE 10,
                text |-> ""]

C16_Witness ==
    /\ dpc = "returned"
    /\ dVarType = "81"
    /\ dStart = 13
    /\ dRaws = <<125, 125>>
    /\ dResp = <<48, 48, 55, 68, 48, 48, 55, 68>>
    /\ dResult["Output Lower Limit"] = [num |-> 125, den |-> 10, text |-> ""]
    /\ dResult["Heater Burnout Threshold"] = [num |-> 125, den |-> 1, text |-> ""]

\* C17: for a read in the 3 area, a key whose raw value has an entry in
\* that key's notation table is returned as the notation string; otherwise
\* the keys "Input Digital Filter Time Constant", "Load Current Upper
\* Limit" and "Total Run Time Alarm Set Value" are returned as raw / 10 and
\* every other key is returned raw.
C17_NotationFirst ==
    (dpc = "returned" /\ AreaOf(dVarType) = "3")
    => /\ DOMAIN dResult = {ElementKey(i) : i \in 1..dNum}
       /\ \A i \in 1..dNum :
            LET k == ElementKey(i)
                hit == {t \in dNotes : t[1] = k /\ t[2] = dRaws[i]}
            IN  IF hit # {}
                THEN \E t \in hit : dResult[k] = [num |-> 0, den |-> 0, text |-> t[3]]
                ELSE dResult[k] =
                       [num |-> dRaws[i],
                        den |-> IF k \in {"Input Digital Filter Time Constant",
                                          "Load Current Upper Limit",
                                          "Total Run Time Alarm Set Value"}
                                THEN 10 ELSE 1,
                        text |-> ""]

C17_Witness ==
    /\ dpc = "returned"
    /\ dVarType = "C3"
    /\ dStart = 17
    /\ dNum = 1
    /\ dRaws = <<0>>
    /\ <<"Load Current Upper Limit", 0, "OFF">> \in dNotes
    /\ dResult["Load Current Upper Limit"] = [num |-> 0, den |-> 0, text |-> "OFF"]

(***************************************************************************)
(* Claims about the encoding of written values (SpecWrite).                *)
(***************************************************************************)
\* the key of the i-th element written (i from 1)
WrittenKey(i) == NameOf(Address(wVarType, wStart + i - 1))

WrittenInTable == \A i \in 1..Len(wValues) : Mapped(Address(wVarType, wStart + i - 1))

\* the integer the digits of element i denote
WrittenInt(i) == ParseHex(wDigits[i])

\* C18: in the E and 1 areas a written value is multiplied by 10 before it
\* is hex-encoded if and only if the element it is written to is not a
\* Status, Version or Heater Burnout Threshold field, for each element of a
\* write according to that element's own address.
C18_ScaledByOwnField ==
    (wpc = "encoded" /\ AreaOf(wVarType) \in {"E", "1"} /\ WrittenInTable)
    => \A i \in 1..Len(wValues) :
          IF WrittenKey(i) \in {"Status", "Version", "Heater Burnout Threshold"}
          THEN WrittenInt(i) * 10 = wValues[i].tenths
          ELSE WrittenInt(i) = wValues[i].tenths

DivideByTenField(vt, key) ==
    IF AreaOf(vt) \in {"E", "1"}
    THEN key \notin {"Status", "Version", "Heater Burnout Threshold"}
    ELSE key \in {"Input Digital Filter Time Constant", "Load Current Upper Limit",
                  "Total Run Time Alarm Set Value"}

\* C19: for every divide-by-10 field, in any area, and every value with one
\* decimal digit whose tenfold fits the field width, the value is encoded
\* and the digits decoded by the read rule give the value back.
C19_RoundTrip ==
    (/\ wpc \in {"encoded", "read", "raised"}
     /\ Len(wValues) = 1
     /\ Mapped(Address(wVarType, wStart))
     /\ DivideByTenField(wVarType, WrittenKey(1)))
    => /\ wpc # "raised"
       /\ wpc = "read" =>
            wBack[1] = [num |-> wValues[1].tenths, den |-> 10, text |-> ""]

(***************************************************************************)
(* Claims about set (SpecSet).                                             *)
(***************************************************************************)
\* the value of the i-th key as the caller gave it, in tenths: a notation
\* string of that key stands for its number
GivenTenths(i) ==
    LET k == tComm[i][1]
        v == tComm[i][2]
    IN  IF v.text = "" THEN v.tenths
        ELSE 10 * (CHOOSE t \in ParityNotes : t[1] = k /\ t[3] = v.text)[2]

HasGivenValue(i) ==
    \/ tComm[i][2].text = ""
    \/ \E t \in ParityNotes : t[1] = tComm[i][1] /\ t[3] = tComm[i][2].text

\* C20: set issues exactly one write per key of the mapping, in key order,
\* each to the address the table gives for that key and with that key's
\* value; no two keys share a write.
C20_OneWritePerKey ==
    /\ Len(tWrites) <= Len(tComm)
    /\ tpc = "returned" => Len(tWrites) = Len(tComm)
    /\ \A i \in 1..Len(tWrites) :
          /\ Mapped(tWrites[i].addr)
          /\ NameOf(tWrites[i].addr) = tComm[i][1]
          /\ HasGivenValue(i) => 10 * tWrites[i].value = GivenTenths(i)

(***************************************************************************)
(* Claims about set and the notation tables (SpecSet).                     *)
(***************************************************************************)
\* what a get of the key at address a decodes after the integer n was
\* written there: the digits _variable_area_write sends, parsed and
\* converted as _variable_area_read does
ReadBackOf(a, n, notes) ==
    Convert(AreaOf(VarTypeOfCode(CodeOf(a))), NameOf(a),
            ParseHex(EncodeValue(VarTypeOfCode(CodeOf(a)), OffsetOf(a),
                                 Value(10 * n, TRUE))),
            Range(notes))

\* the i-th key has, in its own notation table, the string given for it
OwnNotation(i) ==
    /\ tComm[i][2].text # ""
    /\ \E t \in Range(tNotes) : t[1] = tComm[i][1] /\ t[3] = tComm[i][2].text

OwnCode(i) ==
    (CHOOSE t \in Range(tNotes) : t[1] = tComm[i][1] /\ t[3] = tComm[i][2].text)[2]

\* C21: when set is given, for a key K, a notation string s that K's
\* notation table associates with the code c, it writes c, and a get of K
\* decodes s again.
C21_NotationRoundTrip ==
    \A i \in 1..Len(tWrites) :
        OwnNotation(i) /\ Mapped(tWrites[i].addr) /\ NameOf(tWrites[i].addr) = tComm[i][1]
        => /\ tWrites[i].value = OwnCode(i)
           /\ ReadBackOf(tWrites[i].addr, tWrites[i].value, tNotes) = Text(tComm[i][2].text)

(***************************************************************************)
(* Claims about DAQ.get and the registry (SpecRegistry).                   *)
(***************************************************************************)
\* the devices a call with the argument id targets
Targeted == IF gIds = <<>> THEN Registered ELSE Range(gIds)

\* C22: the mapping DAQ.get returns has exactly one entry per targeted
\* device (every registered device when id is omitted, the listed devices
\* otherwise), keyed by the device's name; the entry holds the values of
\* that device's client and the timestamps "Request Sent" and "Response
\* Received", with Request Sent <= Response Received.
C22_OneEntryPerDevice ==
    gcall = "returned" /\ gKind = "get" =>
        /\ gReturned = Targeted
        /\ DOMAIN stamps = Targeted
        /\ \A n \in Targeted :
              /\ stamps[n].client = devList[n]
              /\ stamps[n].sent <= stamps[n].recv

C22_Witness ==
    /\ gcall = "returned"
    /\ gKind = "get"
    /\ gIds = <<>>
    /\ Registered = {"A", "B"}
    /\ stamps["A"].sent = 0 /\ stamps["A"].recv = 1
    /\ stamps["B"].sent = 1 /\ stamps["B"].recv = 1

\* C23: the device mapping belongs to the DeviceRegistry instance: when a
\* second instance is constructed, or a device is added to or removed from
\* one instance, the devices every other instance holds stay as they were.
C23_InstanceOwned ==
    [][\A i \in daqs : (caller' # 0 /\ i # caller') => DevListOf(i)' = DevListOf(i)]_vars

(***************************************************************************)
(* Claims about the logging loop (SpecLog, SpecLogFair).                   *)
(***************************************************************************)
StopAtHead == qin # <<>> /\ Head(qin) = Stop

Running == kpc \in {"top", "poll", "due", "fetch", "drift"}

StopDequeued == kpc = "poll" /\ StopAtHead /\ qin' = Tail(qin)

\* C24: once "Stop" is the head of the control queue the loop begins at
\* most one more snapshot and then exits; when it takes "Stop" from the
\* queue it ends, and an ended loop takes no snapshot.
C24_StopHonoured ==
    /\ [](sinceStop <= 1)
    /\ [][StopDequeued => kpc' = "ended"]_vars
    /\ [][kpc = "ended" => kpc' = "ended" /\ snaps' = snaps]_vars
    /\ (StopAtHead /\ Running) ~> ~Running

C24_Witness ==
    /\ kpc = "ended"
    /\ timeNs <= duration
    /\ sinceStop = 1
    /\ Len(snaps) = 2

\* C25: every [callable, args] command put on the control queue is in the
\* end invoked, and its result is put on the output queue.
C25_CommandAnswered ==
    \A c \in Callers :
        (\E i \in 1..Len(qin) : qin[i] = ListCommand(c))
            ~> (\E i \in 1..Len(qout) : qout[i].from = c)

Terminated == kpc \in {"ended", "raised"}

\* C26: when the loop has terminated, every snapshot it took has been
\* handed to insert_data exactly once, and none is ever handed twice.
C26_PersistedOnce ==
    /\ \A i \in 1..Len(snaps) : snaps[i].persisted <= 1
    /\ Terminated => \A i \in 1..Len(snaps) : snaps[i].persisted = 1

\* C27: two consecutive snapshots are never closer together than 1 / rate.
C27_SpacedByPeriod ==
    \A i \in 2..Len(snaps) : snaps[i].at - snaps[i - 1].at >= Period

\* the loop ran to the end of its duration and took every snapshot at the
\* time it was due
RanPrompt ==
    /\ kpc = "ended"
    /\ timeNs > duration
    /\ DueAt(reps) > duration
    /\ \A i \in 1..Len(snaps) : snaps[i].at = snaps[i].due

\* C28: when no tick's work exceeds 1 / rate, a run of duration D takes
\* D * rate (plus or minus 1) snapshots and emits no drift warning; when a
\* tick's work exceeds 1 / rate a warning is emitted and that tick's
\* snapshot is taken and, by the end of the run, persisted.
C28_TicksAndDrift ==
    /\ RanPrompt /\ (\A i \in 1..Len(snaps) : snaps[i].work <= Period)
       => /\ Len(snaps) >= duration \div Period - 1
          /\ Len(snaps) <= duration \div Period + 1
          /\ warnings = 0
    /\ \A i \in 1..Len(snaps) :
          snaps[i].work > Period /\ kpc # "drift"
          => /\ warnings >= 1
             /\ Terminated => snaps[i].persisted = 1

\* C30: a caller of DAQLogging.get / set that waits for its result gets the
\* result of its own command.
C30_OwnResult ==
    \A c \in Callers : (c \in waiting) ~> (c \notin waiting /\ got[c] = c)

(***************************************************************************)
(* Claims about start_logging (SpecStart).                                 *)
(***************************************************************************)
RunningLoops == {i \in 1..Len(loops) : loops[i].runs}

\* C29: at most one loop of a DAQLogging instance runs at any time, and a
\* loop reads no queue but the one made by the start_logging call that
\* started it.
C29_OneLoopOwnQueue ==
    /\ Cardinality(RunningLoops) <= 1
    /\ \A i \in 1..Len(loops) : loops[i].read \subseteq {loops[i].made}

(***************************************************************************)
(* Claims about the ranges read by get (SpecGet).                          *)
(***************************************************************************)
\* the addresses get resolved from the requested names
Requested == SetOfSeq(commList)

\* C31: each read issued by get covers a contiguous run of requested
\* addresses: every address in [start, start + count) was itself requested,
\* so get never batches across a gap.
C31_NoGapInRead ==
    comm # {} =>
        \A h \in 1..Len(reads) :
            ReadRange(reads[h].addr, reads[h].n) \subseteq Requested

(***************************************************************************)
(* Claims about the mapping of one read (SpecDecode).                      *)
(***************************************************************************)
\* the table name of element i of the read, and the digits of its field
ElementName(i) == NameOf(Address(dVarType, dStart + i))

ElementRaw(i) ==
    LET w == ReadWidth(SubSeq(dVarType, 1, 1))
    IN  ParseHex(Slice(dResp, w * i, w * i + w))

\* C32: a read that returns normally yields exactly one entry per element
\* i in 0..count-1, keyed by the table name of offset start + i, whose value
\* is derived from hex digits [w*i, w*(i+1)) of the payload, w = 4 for
\* prefix 8 and 8 for prefix C.
C32_OneEntryPerElement ==
    dpc = "returned" =>
        /\ DOMAIN dResult = {ElementName(i) : i \in 0..(dNum - 1)}
        /\ Cardinality(DOMAIN dResult) = dNum
        /\ \A i \in 0..(dNum - 1) :
              dResult[ElementName(i)] =
                  Convert(AreaOf(dVarType), ElementName(i), ElementRaw(i), dNotes)

\* the addresses resolved from the requested name c alone
AddressesOf(c) == SetOfSeq(ResolveName(<<>>, c, famOrder))

\* C33: get resolves each requested name to a single address, never to both
\* the 8- and the C-width variant of one family and offset, and Status is
\* always read as CE0006: no read covers 8E0006.
C33_SingleAddress ==
    comm # {} =>
        /\ \A c \in comm : Cardinality(AddressesOf(c)) <= 1
        /\ \A a \in Requested : ~(As8(a) \in Requested /\ AsC(a) \in Requested)
        /\ \A h \in 1..Len(reads) :
              Address("8E", 6) \notin ReadRange(reads[h].addr, reads[h].n)

\* the reads of one get call that cover the address a
ReadsCovering(a) ==
    {h \in 1..Len(reads) : a \in ReadRange(reads[h].addr, reads[h].n)}

\* the loop of get ended without a read raising
GetLoopDone == comm # {} /\ gpc \in {"filter", "returned"}

\* C37: every resolved address is covered by exactly one read issued by
\* get: none is skipped and none is read twice within one get call.
C37_CoveredOnce ==
    GetLoopDone => \A a \in Requested : Cardinality(ReadsCovering(a)) = 1

C37_Witness ==
    /\ gpc = "returned"
    /\ Len(commList) = 4
    /\ Len(reads) = 2
    /\ reads[1].n = 3
    /\ \A a \in Requested : Cardinality(ReadsCovering(a)) = 1

(***************************************************************************)
(* Claims about the fields of a write command (SpecWrite).                 *)
(***************************************************************************)
IsUpperHexChar(c) == (c >= 48 /\ c <= 57) \/ (c >= 65 /\ c <= 70)

\* C34: _variable_area_write encodes every value as exactly 4 uppercase hex
\* digits for prefix 8 and exactly 8 for prefix C, for every value it
\* accepts, so the command body is always 16 + width * count characters.
C34_FieldWidth ==
    wpc \in {"encoded", "read"} =>
        LET w == ReadWidth(SubSeq(wVarType, 1, 1))
        IN  /\ \A i \in 1..Len(wDigits) :
                  /\ Len(wDigits[i]) = w
                  /\ \A h \in 1..Len(wDigits[i]) : IsUpperHexChar(wDigits[i][h])
            /\ Len(WriteBody(wVarType, wStart, wDigits)) = 16 + w * Len(wValues)

(***************************************************************************)
(* Claims about the tick counter of the logging loop (SpecLog).            *)
(***************************************************************************)
\* the catch-up loop of a tick ends
CatchUpEnds == kpc = "drift" /\ kpc' = "top"

\* C35: when the catch-up loop of a completed tick ends the tick counter
\* equals floor(elapsed * rate); one drift warning was emitted for every
\* period skipped without a snapshot; and at all times the counter equals
\* the snapshots taken plus the warnings emitted.
C35_TickCounter ==
    /\ [](reps = Len(snaps) + warnings)
    /\ [][CatchUpEnds =>
            /\ reps' = timeNs' \div Period
            /\ warnings' = timeNs' \div Period - Len(snaps')]_vars

C35_Witness ==
    /\ kpc = "top"
    /\ Len(snaps) = 2
    /\ warnings = 1
    /\ reps = 3
    /\ reps = timeNs \div Period

\* a pass of the loop begins
IterationBegins == kpc = "top" /\ kpc' = "poll"

\* C36: the logging loop terminates: no iteration begins once the elapsed
\* time exceeds the duration, the loop exits as soon as it takes "Stop"
\* from the queue, and a running loop comes to an end.
C36_LoopTerminates ==
    /\ [][IterationBegins => timeNs <= duration]_vars
    /\ [][StopDequeued => ~Running']_vars
    /\ Running ~> Terminated

C36_Witness ==
    /\ kpc = "ended"
    /\ timeNs > duration
    /\ qin = <<>>
    /\ sinceStop = 0
    /\ Len(snaps) = 2

(***************************************************************************)
(* Claims about the address and the integer set writes (SpecSet).          *)
(***************************************************************************)
\* the addresses the table gives for the name c
TableAddresses(c) ==
    {AddressIn(HitsOf(c, famOrder)[h], c) : h \in 1..Len(HitsOf(c, famOrder))}

\* C38: set never writes a value to an address other than the one resolved
\* from the key being written; a key that matches no table name causes no
\* write, in particular none to the address of the key before it.
C38_OwnAddressOnly ==
    \A i \in 1..Len(tWrites) : tWrites[i].addr \in TableAddresses(tComm[i][1])

\* the digits _variable_area_write sends for the integer n written to a,
\* and the integer they denote
FieldOfInt(a, n) ==
    EncodeValue(VarTypeOfCode(CodeOf(a)), OffsetOf(a), Value(10 * n, TRUE))

\* the field of the write set makes for the value v of a key at a
FieldOfSet(a, v) == FieldOfInt(a, IntOf(v))

\* C39: set converts each value to an integer, cutting off the fraction,
\* before the write scales it: the integer encoded for a divide-by-10 field
\* set to v is 10 * trunc(v), and setting v writes the same field as
\* setting trunc(v).
C39_TruncatedThenScaled ==
    \A i \in 1..Len(tWrites) :
        LET k == tComm[i][1]
            v == tComm[i][2]
            a == tWrites[i].addr
        IN  (/\ v.text = ""
             /\ a \in TableAddresses(k)
             /\ DivideByTenField(VarTypeOfCode(CodeOf(a)), k))
            => /\ tWrites[i].value = v.tenths \div 10
               /\ ParseHex(FieldOfInt(a, tWrites[i].value)) = 10 * (v.tenths \div 10)
               /\ FieldOfSet(a, v) = FieldOfSet(a, Num(10 * (v.tenths \div 10)))

(***************************************************************************)
(* Claims about the checksum of a response (SpecLink).                     *)
(***************************************************************************)
\* the response resp with the byte b in the place of its last byte
WithLast(resp, b) == SubSeq(resp, 1, Len(resp) - 1) \o <<b>>

\* the outcome and the result of a read or a write for the response resp
ReadOrWriteResult(resp) ==
    IF op = "read"
    THEN LET out == VariableAreaReadOutcome(resp, rdPrefix, numElem)
         IN  <<out, IF out = "returned" THEN ReadChunks(resp, rdPrefix, numElem)
                    ELSE <<>> >>
    ELSE <<VariableAreaWriteOutcome(resp), <<>> >>

\* a read or a write has ended on a response received whole
WholeResponseUsed ==
    /\ lpc = "done"
    /\ op \in {"read", "write"}
    /\ line = peer

BccOf(resp) == XorAll(SubSeq(resp, 2, Len(resp) - 1))

\* C40: the outcome of a read or a write depends on the end code, the
\* response code and the payload only: a response that differs in nothing
\* but its trailing checksum byte gives the same outcome and the same
\* values, so a response with a wrong checksum is used like a good one.
C40_ChecksumNotCompared ==
    WholeResponseUsed =>
        \A b \in 0..255 : ReadOrWriteResult(WithLast(line, b)) = <<outcome, result>>

C40_Witness ==
    /\ WholeResponseUsed
    /\ op = "read"
    /\ outcome = "returned"
    /\ result # <<>>
    /\ line[Len(line)] # BccOf(line)

=============================================================================
